---- MODULE Spec2Model ----
(***************************************************************************)
(* The schema catalog of cmd/matrix/schema_catalog.go: snapshots of the    *)
(* tables extracted from a project directory, the per-project catalog of   *)
(* timestamp-named records plus a "latest" alias, and the diff engine;     *)
(* and the scanner of the RAM directory of internal/ram/scanner.go.        *)
(*                                                                         *)
(* Strings are TLA+ strings.  A Go string that is not valid UTF-8 is       *)
(* written with the offending byte spelled out, "a<F1>o" being the three   *)
(* bytes 'a', 0xF1, 'o' (the Latin-1 spelling of "ano" with a tilde), and  *)
(* a backtick is written <bq>.  The operations of the strings package are  *)
(* given by what they return on the strings of the model.                  *)
(* Time is counted in ticks; TicksPerSecond ticks make one second, which   *)
(* is the resolution of the record file names.                             *)
(***************************************************************************)
EXTENDS Integers, Sequences, FiniteSets, TLC

VARIABLES
    now,      \* the wall clock, in ticks (time.Now())
    catalog,  \* the files below getCatalogDir(), per project directory
    faults,   \* number of I/O failures the environment has injected so far
    out       \* what the last command did and returned

vars == <<now, catalog, faults, out>>

(***************************************************************************)
(* Bounds of the model.                                                    *)
(***************************************************************************)
MaxTick == 2
TicksPerSecond == 2
MaxFaults == 1

(***************************************************************************)
(* Generic helpers on sequences.                                           *)
(***************************************************************************)
Range(s) == {s[i] : i \in DOMAIN s}

Perms(S) == {s \in [1..Cardinality(S) -> S] : Range(s) = S}

RECURSIVE InsertByTime(_, _)
\* s is sorted by SnapshotTime; x goes after every element that is not later.
InsertByTime(s, x) ==
    IF s = <<>> THEN <<x>>
    ELSE IF x.SnapshotTime < Head(s).SnapshotTime THEN <<x>> \o s
    ELSE <<Head(s)>> \o InsertByTime(Tail(s), x)

RECURSIVE SortByTime(_)
SortByTime(s) ==
    IF s = <<>> THEN <<>>
    ELSE InsertByTime(SortByTime(SubSeq(s, 1, Len(s) - 1)), s[Len(s)])

(***************************************************************************)
(* Strings: the operations of the code on the strings of the model.        *)
(***************************************************************************)
\* encoding/json writes a string coerced to valid UTF-8: every invalid byte
\* becomes the replacement rune U+FFFD.
ToValidUTF8(s) ==
    CASE s = "a<F1>o" -> "a<U+FFFD>o"
      [] OTHER -> s

\* strings.Contains(s, "latest")
ContainsLatest(s) ==
    s \in {"latest_db", "latest"}

\* filepath.Base of the scanned directories
Paths == {"/w/app", "/w/shop", "/w/latest_db"}

Base(path) ==
    CASE path = "/w/app" -> "app"
      [] path = "/w/shop" -> "shop"
      [] path = "/w/latest_db" -> "latest_db"
      [] path = "/w/build" -> "build"
      [] path = "/w/migrations" -> "migrations"

Projects == {Base(p) : p \in Paths}

\* os.ReadDir returns the entries sorted by file name.
ProjectsByName == <<"app", "latest_db", "shop">>

\* strings.ToLower on the file and directory names of the model
ToLower(s) ==
    CASE s = "SCHEMA.SQL" -> "schema.sql"
      [] s = "Schema.rb" -> "schema.rb"
      [] s = "Migrate" -> "migrate"
      [] s = "NOTES.MD" -> "notes.md"
      [] s = "todo.Md" -> "todo.md"
      [] OTHER -> s

\* filepath.Ext: the name from its last dot on
Ext(s) ==
    CASE s \in {"schema.sql", "a.sql", "b.sql", "c.sql"} -> ".sql"
      [] s = "SCHEMA.SQL" -> ".SQL"
      [] s = "schema.prisma" -> ".prisma"
      [] s \in {"schema.rb", "Schema.rb"} -> ".rb"
      [] s = "models.py" -> ".py"
      [] s = "main.go" -> ".go"
      [] s = "notes.txt" -> ".txt"
      [] s \in {".md", "archive.md", "debug.md", "deep.md", "notes.md", "old.md",
                "secret.md", "todo.md"} -> ".md"
      [] s = "NOTES.MD" -> ".MD"
      [] s = "todo.Md" -> ".Md"
      [] s = "debug.mdx" -> ".mdx"
      [] OTHER -> ""

\* strings.HasSuffix(s, suffix) for a suffix that starts with its only dot
HasSuffix(s, suffix) == Ext(s) = suffix

\* strings.TrimSuffix(s, suffix) for the suffix filepath.Ext(s) gives
TrimSuffix(s, suffix) ==
    CASE suffix = "" -> s
      [] s = ".md" -> ""
      [] s = "archive.md" -> "archive"
      [] s = "debug.md" -> "debug"
      [] s = "debug.mdx" -> "debug"
      [] s = "deep.md" -> "deep"
      [] s = "notes.md" -> "notes"
      [] s = "NOTES.MD" -> "NOTES"
      [] s = "notes.txt" -> "notes"
      [] s = "old.md" -> "old"
      [] s = "secret.md" -> "secret"
      [] s = "todo.Md" -> "todo"

\* the place of a piece of a descriptor in the byte order of strings
StrRank(s) ==
    CASE s = " (" -> 1      [] s = " -> " -> 2    [] s = ")" -> 3
      [] s = "." -> 4       [] s = "INT" -> 5     [] s = "TEXT" -> 6
      [] s = "VARCHAR" -> 7 [] s = "email" -> 8   [] s = "id" -> 9
      [] s = "name" -> 10   [] s = "orders" -> 11 [] s = "table: " -> 12
      [] s = "users" -> 13

(***************************************************************************)
(* The data model: Column, Table, SchemaSnapshot.                          *)
(***************************************************************************)
Col(name, type, nullable, pk) ==
    [Name |-> name, Type |-> type, Nullable |-> nullable,
     PrimaryKey |-> pk, Unique |-> FALSE, Default |-> ""]

Tbl(name, columns) ==
    [Name |-> name, Columns |-> columns, Indexes |-> <<>>, ForeignKeys |-> <<>>]

NoTables == [n \in {} |-> Tbl("", <<>>)]

\* the assignment guarded by a test that the name is not yet in the map
PutTableKeepFirst(tables, table) ==
    [n \in DOMAIN tables \cup {table.Name} |->
        IF n \in DOMAIN tables THEN tables[n] ELSE table]

\* snapshot.Tables[table.Name] = table
PutTable(tables, table) ==
    [n \in DOMAIN tables \cup {table.Name} |->
        IF n = table.Name THEN table ELSE tables[n]]

RECURSIVE PutTables(_, _)
\* for _, table := range tables { snapshot.Tables[table.Name] = table }
PutTables(tables, list) ==
    IF list = <<>> THEN tables
    ELSE PutTables(PutTable(tables, Head(list)), Tail(list))

(***************************************************************************)
(* JSON: what json.Marshal writes and json.Unmarshal reads back.  A        *)
(* document is modelled by the value it decodes to: the same tree with     *)
(* every string coerced to valid UTF-8.  Map keys, sequence order, the     *)
(* booleans and the time (RFC 3339 with nanoseconds) are kept as they are. *)
(***************************************************************************)
MarshalColumn(c) ==
    [Name |-> ToValidUTF8(c.Name), Type |-> ToValidUTF8(c.Type),
     Nullable |-> c.Nullable, PrimaryKey |-> c.PrimaryKey,
     Unique |-> c.Unique, Default |-> ToValidUTF8(c.Default)]

MarshalTable(t) ==
    [Name |-> ToValidUTF8(t.Name),
     Columns |-> [i \in DOMAIN t.Columns |-> MarshalColumn(t.Columns[i])],
     Indexes |-> t.Indexes, ForeignKeys |-> t.ForeignKeys]

MarshalTables(tables) ==
    [n \in {ToValidUTF8(k) : k \in DOMAIN tables} |->
        MarshalTable(tables[CHOOSE k \in DOMAIN tables : ToValidUTF8(k) = n])]

MarshalSnapshot(s) ==
    [Project |-> ToValidUTF8(s.Project), SnapshotTime |-> s.SnapshotTime,
     Source |-> ToValidUTF8(s.Source), GitCommit |-> ToValidUTF8(s.GitCommit),
     Checksum |-> s.Checksum, Tables |-> MarshalTables(s.Tables),
     SourceFiles |-> [i \in DOMAIN s.SourceFiles |->
                        [j \in DOMAIN s.SourceFiles[i] |->
                            ToValidUTF8(s.SourceFiles[i][j])]]]

\* json.Unmarshal of a document written by MarshalSnapshot
UnmarshalSnapshot(doc) == doc

\* calculateChecksum hashing the whole snapshot document instead of its tables
calculateChecksumOfSnapshot(snapshot) == <<"sha256", MarshalSnapshot(snapshot)>>

\* sha256 of json.Marshal(snapshot.Tables), taken as collision free: the
\* checksum is the marshalled document it hashes.  encoding/json writes the
\* keys of a map in sorted order, so the document is the mapping itself,
\* whatever order the tables were inserted or are iterated in.
calculateChecksum(snapshot) == <<"sha256", MarshalTables(snapshot.Tables)>>

getGitCommit(path) == ""

(***************************************************************************)
(* The catalog: one directory per project below getCatalogDir(), holding   *)
(* schema-<timestamp>.json records and schema-latest.json.  A file is      *)
(* absent, holds a JSON document, or holds the torn bytes of a write that  *)
(* failed part way.                                                        *)
(***************************************************************************)
Absent == [kind |-> "absent"]
Corrupt == [kind |-> "corrupt"]
Json(doc) == [kind |-> "json", doc |-> doc]

\* snapshot.SnapshotTime.Format("2006-01-02-150405"): the time cut to the second
FormatTimestamp(t) == t \div TicksPerSecond

Keys == 0 .. FormatTimestamp(MaxTick)

EmptyDir == [exists |-> FALSE, recs |-> [k \in Keys |-> Absent], latest |-> Absent]

\* The outcomes of the I/O of one saveSnapshot call.
IoOutcomes == {"ok", "mkdir", "ts_open", "ts_partial", "latest_open", "latest_partial"}

\* The outcomes with whether os.Remove removed schema-latest.json: it fails
\* together with the write that follows it when the file cannot be replaced.
IoCases ==
    {<<io, TRUE>> : io \in IoOutcomes} \cup {<<"latest_open", FALSE>>}

\* saveSnapshot with the error of the record's write dropped: latest is written
\* all the same and nil returned
saveSnapshotWriteUnchecked(cat, snapshot, io, rm) ==
    LET project == snapshot.Project
        made == [cat[project] EXCEPT !.exists = TRUE]
        timestamp == FormatTimestamp(snapshot.SnapshotTime)
        data == Json(MarshalSnapshot(snapshot))
        after == CASE io = "ts_open" -> made
                   [] io = "ts_partial" -> [made EXCEPT !.recs[timestamp] = Corrupt]
                   [] OTHER -> [made EXCEPT !.recs[timestamp] = data]
    IN  IF io = "mkdir"
        THEN [cat |-> cat, err |-> "failed to create catalog directory"]
        ELSE [cat |-> [cat EXCEPT ![project] = [after EXCEPT !.latest = data]],
              err |-> ""]

\* saveSnapshot: the catalog after the call and the error it returns ("" for nil).
\* io is the outcome of the call's I/O, rm whether os.Remove removed the file.
saveSnapshot(cat, snapshot, io, rm) ==
    LET project == snapshot.Project
        dir == cat[project]
        made == [dir EXCEPT !.exists = TRUE]
        timestamp == FormatTimestamp(snapshot.SnapshotTime)
        data == Json(MarshalSnapshot(snapshot))
        torn == [made EXCEPT !.recs[timestamp] = Corrupt]
        written == [made EXCEPT !.recs[timestamp] = data]
        removed == IF rm THEN [written EXCEPT !.latest = Absent] ELSE written
    IN  CASE io = "mkdir" ->
               [cat |-> cat, err |-> "failed to create catalog directory"]
          [] io = "ts_open" ->
               [cat |-> [cat EXCEPT ![project] = made],
                err |-> "failed to write snapshot file"]
          [] io = "ts_partial" ->
               [cat |-> [cat EXCEPT ![project] = torn],
                err |-> "failed to write snapshot file"]
          [] io = "latest_open" ->
               [cat |-> [cat EXCEPT ![project] = removed],
                err |-> "failed to update latest snapshot"]
          [] io = "latest_partial" ->
               [cat |-> [cat EXCEPT ![project] = [removed EXCEPT !.latest = Corrupt]],
                err |-> "failed to update latest snapshot"]
          [] OTHER ->
               [cat |-> [cat EXCEPT ![project] = [removed EXCEPT !.latest = data]],
                err |-> ""]

\* loadLatestSnapshot: the snapshot read from schema-latest.json, or the error.
loadLatestSnapshot(cat, projectName) ==
    LET file == cat[projectName].latest
    IN  CASE file.kind = "absent" -> [err |-> "no such file"]
          [] file.kind = "corrupt" -> [err |-> "invalid json"]
          [] OTHER -> [err |-> "", snapshot |-> UnmarshalSnapshot(file.doc)]

\* filepath.Glob(projectDir/schema-*.json): the files of the directory that
\* match, sorted by name: the records by timestamp, then schema-latest.json.
RECURSIVE RecordFiles(_, _, _)
RecordFiles(cat, project, k) ==
    IF k \notin Keys THEN <<>>
    ELSE (IF cat[project].recs[k] = Absent THEN <<>>
          ELSE <<[dir |-> project, stem |-> ToString(k), file |-> cat[project].recs[k]]>>)
         \o RecordFiles(cat, project, k + 1)

Glob(cat, project) ==
    RecordFiles(cat, project, 0)
    \o (IF cat[project].latest = Absent THEN <<>>
        ELSE <<[dir |-> project, stem |-> "latest", file |-> cat[project].latest]>>)

\* strings.Contains(file, "latest") on projectDir/schema-<stem>.json
SkippedAsLatest(f) == ContainsLatest(f.dir) \/ ContainsLatest(f.stem)

RECURSIVE Decoded(_)
\* the files of the list that are kept, read and decoded, in the list's order
Decoded(files) ==
    IF files = <<>> THEN <<>>
    ELSE (IF SkippedAsLatest(Head(files)) \/ Head(files).file.kind # "json" THEN <<>>
          ELSE <<UnmarshalSnapshot(Head(files).file.doc)>>)
         \o Decoded(Tail(files))

\* loadAllSnapshots(projectDir)
loadAllSnapshots(cat, project) == SortByTime(Decoded(Glob(cat, project)))

(***************************************************************************)
(* The diff engine.  A change descriptor is the tuple of the pieces that   *)
(* fmt.Sprintf joins: "table: %s", "%s.%s (%s)", "%s.%s (%s -> %s)" and    *)
(* "%s.%s".                                                                *)
(***************************************************************************)
TableDesc(tableName) == <<"table: ", tableName>>
AddedColDesc(tableName, col) == <<tableName, ".", col.Name, " (", col.Type, ")">>
ModifiedColDesc(tableName, oldCol, newCol) ==
    <<tableName, ".", newCol.Name, " (", oldCol.Type, " -> ", newCol.Type, ")">>
RemovedColDesc(tableName, col) == <<tableName, ".", col.Name>>

ColNames(columns) == {columns[i].Name : i \in DOMAIN columns}

\* oldCols[col.Name] = col for every column in order: the last one of a name stays
LastNamed(columns, name) ==
    columns[CHOOSE i \in DOMAIN columns :
                /\ columns[i].Name = name
                /\ \A j \in DOMAIN columns : columns[j].Name = name => j <= i]

RECURSIVE AddedColsUntested(_, _, _)
\* AddedCols without the test of oldCols: every column of new is reported
AddedColsUntested(tableName, oldColumns, newColumns) ==
    IF newColumns = <<>> THEN <<>>
    ELSE <<AddedColDesc(tableName, Head(newColumns))>>
         \o AddedColsUntested(tableName, oldColumns, Tail(newColumns))

RECURSIVE AddedCols(_, _, _)
AddedCols(tableName, oldColumns, newColumns) ==
    IF newColumns = <<>> THEN <<>>
    ELSE (IF Head(newColumns).Name \notin ColNames(oldColumns)
          THEN <<AddedColDesc(tableName, Head(newColumns))>> ELSE <<>>)
         \o AddedCols(tableName, oldColumns, Tail(newColumns))

RECURSIVE ModifiedCols(_, _, _)
ModifiedCols(tableName, oldColumns, newColumns) ==
    IF newColumns = <<>> THEN <<>>
    ELSE LET newCol == Head(newColumns)
             exists == newCol.Name \in ColNames(oldColumns)
             oldCol == LastNamed(oldColumns, newCol.Name)
         IN  (IF exists /\ (oldCol.Type # newCol.Type \/ oldCol.Nullable # newCol.Nullable)
              THEN <<ModifiedColDesc(tableName, oldCol, newCol)>> ELSE <<>>)
             \o ModifiedCols(tableName, oldColumns, Tail(newColumns))

\* RemovedCols with the loop ranging over the columns of the new table
RemovedColsOverNew(tableName, oldColumns, newColumns) == <<>>

RECURSIVE RemovedCols(_, _, _)
RemovedCols(tableName, oldColumns, newColumns) ==
    IF oldColumns = <<>> THEN <<>>
    ELSE (IF Head(oldColumns).Name \notin ColNames(newColumns)
          THEN <<RemovedColDesc(tableName, Head(oldColumns))>> ELSE <<>>)
         \o RemovedCols(tableName, Tail(oldColumns), newColumns)

RECURSIVE NewTablesLoop(_, _, _, _)
\* for tableName, newTable := range new.Tables, in the order the map yields
NewTablesLoop(old, new, order, diff) ==
    IF order = <<>> THEN diff
    ELSE LET tableName == Head(order)
             newTable == new.Tables[tableName]
             oldTable == old.Tables[tableName]
         IN  IF tableName \notin DOMAIN old.Tables
             THEN NewTablesLoop(old, new, Tail(order),
                      [diff EXCEPT !.Added = @ \o <<TableDesc(tableName)>>])
             ELSE NewTablesLoop(old, new, Tail(order),
                      [Added |-> diff.Added
                            \o AddedCols(tableName, oldTable.Columns, newTable.Columns),
                       Modified |-> diff.Modified
                            \o ModifiedCols(tableName, oldTable.Columns, newTable.Columns),
                       Removed |-> diff.Removed
                            \o RemovedCols(tableName, oldTable.Columns, newTable.Columns)])

RECURSIVE OldTablesLoopInverted(_, _, _, _)
\* OldTablesLoop with the test inverted: a table is recorded when new has it
OldTablesLoopInverted(old, new, order, diff) ==
    IF order = <<>> THEN diff
    ELSE OldTablesLoopInverted(old, new, Tail(order),
             IF Head(order) \in DOMAIN new.Tables
             THEN [diff EXCEPT !.Removed = @ \o <<TableDesc(Head(order))>>]
             ELSE diff)

RECURSIVE OldTablesLoop(_, _, _, _)
\* for tableName := range old.Tables, in the order the map yields
OldTablesLoop(old, new, order, diff) ==
    IF order = <<>> THEN diff
    ELSE OldTablesLoop(old, new, Tail(order),
             IF Head(order) \notin DOMAIN new.Tables
             THEN [diff EXCEPT !.Removed = @ \o <<TableDesc(Head(order))>>]
             ELSE diff)

\* compareSnapshots(old, new); newOrder and oldOrder are the orders in which the
\* two range loops visit the keys of new.Tables and of old.Tables.
compareSnapshots(old, new, newOrder, oldOrder) ==
    OldTablesLoop(old, new, oldOrder,
        NewTablesLoop(old, new, newOrder,
            [Added |-> <<>>, Modified |-> <<>>, Removed |-> <<>>]))

(***************************************************************************)
(* The scanned directories.  A tree is what a command finds below its      *)
(* path: whether the path exists and the files below it in the order       *)
(* filepath.Walk meets them, each with the directories between the root    *)
(* and the file, its name, whether it can be read and the tables           *)
(* parseSQLSchema extracts from its content.  A path is the sequence of    *)
(* the names below the root.                                               *)
(***************************************************************************)
cId == Col("id", "INT", FALSE, TRUE)
cName == Col("name", "TEXT", TRUE, FALSE)
cNameV == Col("name", "VARCHAR", TRUE, FALSE)
cEmail == Col("email", "TEXT", FALSE, FALSE)
cLatin1 == Col("a<F1>o", "INT", TRUE, FALSE)

FileAt(dir, name, readable, tables) ==
    [dir |-> dir, name |-> name, readable |-> readable, tables |-> tables]

\* a file in the root directory
SchemaFile(name, readable, tables) == FileAt(<<>>, name, readable, tables)

Tree(files) == [exists |-> TRUE, files |-> files]

TreeMissing == [exists |-> FALSE, files |-> <<>>]
TreeEmpty == Tree(<<>>)
TreeUsers == Tree(<<SchemaFile("schema.sql", TRUE, <<Tbl("users", <<cId, cName>>)>>)>>)
TreeDup ==
    Tree(<<SchemaFile("schema.sql", TRUE, <<Tbl("users", <<cId, cName, cNameV>>)>>)>>)
TreeLatin1 ==
    Tree(<<SchemaFile("schema.sql", TRUE, <<Tbl("orders", <<cId, cLatin1>>)>>)>>)
TreeTwo ==
    Tree(<<SchemaFile("a.sql", TRUE,
               <<Tbl("users", <<cId, cName>>), Tbl("orders", <<cId>>)>>),
           SchemaFile("b.sql", FALSE, <<>>),
           SchemaFile("c.sql", TRUE, <<Tbl("users", <<cId, cNameV>>)>>)>>)

\* What a command may find below each path.
Trees(path) ==
    CASE path = "/w/app" -> {TreeMissing, TreeEmpty, TreeUsers, TreeLatin1}
      [] path = "/w/shop" -> {TreeTwo}
      [] path = "/w/latest_db" -> {TreeDup}

TableNames == {"users", "orders"}

PrunedNames == {"node_modules", "vendor", ".git", "target", "build", "dist"}

\* the walk function returning nil, not SkipDir, for an ignored directory
WalkReachesNoSkip(rootName, file) == TRUE

\* filepath.Walk calls the function for the root and for every directory on
\* the way to a file before the file; SkipDir from one of them ends the descent.
WalkReaches(rootName, file) ==
    /\ rootName \notin PrunedNames
    /\ \A i \in DOMAIN file.dir : file.dir[i] \notin PrunedNames

\* filepath.Base(filepath.Dir(filePath)): for a file of the root, the root
ParentName(rootName, file) ==
    IF file.dir = <<>> THEN rootName ELSE file.dir[Len(file.dir)]

\* MatchesSchemaFile with the directory name compared as it is spelled
MatchesSchemaFileDirAsSpelled(rootName, file) ==
    LET name == ToLower(file.name)
        dir == ParentName(rootName, file)
    IN  \/ HasSuffix(name, ".sql")
        \/ HasSuffix(name, ".prisma")
        \/ name = "schema.rb"
        \/ name = "models.py"
        \/ dir = "migrations"
        \/ dir = "migrate"

\* the test "Match schema files" of the walk function
MatchesSchemaFile(rootName, file) ==
    LET name == ToLower(file.name)
        dir == ToLower(ParentName(rootName, file))
    IN  \/ HasSuffix(name, ".sql")
        \/ HasSuffix(name, ".prisma")
        \/ name = "schema.rb"
        \/ name = "models.py"
        \/ dir = "migrations"
        \/ dir = "migrate"

RECURSIVE Walk(_, _)
\* the files the walk function appends, in the order of the walk
Walk(rootName, files) ==
    IF files = <<>> THEN <<>>
    ELSE (IF WalkReaches(rootName, Head(files)) /\ MatchesSchemaFile(rootName, Head(files))
          THEN <<Head(files)>> ELSE <<>>)
         \o Walk(rootName, Tail(files))

FilePath(file) == file.dir \o <<file.name>>

\* discoverSchemaFiles(absPath)
discoverSchemaFiles(path, tree) ==
    LET found == Walk(Base(path), tree.files)
    IN  [i \in DOMAIN found |-> FilePath(found[i])]

\* parseSchemaFile: the error of os.ReadFile, the tables of a .sql file, or
\* nothing for any other file
parseSchemaFile(file) ==
    IF ~file.readable THEN [err |-> "read failed", tables |-> <<>>]
    ELSE IF HasSuffix(ToLower(file.name), ".sql")
    THEN [err |-> "", tables |-> file.tables]
    ELSE [err |-> "", tables |-> <<>>]

RECURSIVE ParseAll(_, _)
\* the loop over schemaFiles: a file that cannot be read is skipped
ParseAll(files, tables) ==
    IF files = <<>> THEN tables
    ELSE ParseAll(Tail(files),
             IF parseSchemaFile(Head(files)).err = ""
             THEN PutTables(tables, parseSchemaFile(Head(files)).tables)
             ELSE tables)

\* the snapshot runSchemaScan and runSchemaDiff build for a path at time t
BuildSnapshot(path, tree, t) ==
    LET snapshot == [Project |-> Base(path), SnapshotTime |-> t, Source |-> path,
                     GitCommit |-> "", Checksum |-> "",
                     Tables |-> ParseAll(Walk(Base(path), tree.files), NoTables),
                     SourceFiles |-> discoverSchemaFiles(path, tree)]
    IN  [snapshot EXCEPT !.Checksum = calculateChecksum(snapshot),
                         !.GitCommit = getGitCommit(path)]

(***************************************************************************)
(* The state machine: one action per command.                              *)
(***************************************************************************)
Init ==
    /\ now = 0
    /\ catalog = [p \in Projects |-> EmptyDir]
    /\ faults = 0
    /\ out = [op |-> "none"]

\* Time passes between two commands.
Tick ==
    /\ now < MaxTick
    /\ now' = now + 1
    /\ UNCHANGED <<catalog, faults, out>>

\* runSchemaScan without the return on an empty discovery: the snapshot of no
\* table is saved
runSchemaScanSavingEmpty(path, tree, io, rm) ==
    /\ now <= MaxTick
    /\ now' = now + 1
    /\ IF ~tree.exists
       THEN /\ io = "ok" /\ rm
            /\ out' = [op |-> "scan", path |-> path, tree |-> tree,
                       err |-> "path does not exist",
                       saved |-> FALSE]
            /\ UNCHANGED <<catalog, faults>>
       ELSE LET snapshot == BuildSnapshot(path, tree, now)
                res == saveSnapshot(catalog, snapshot, io, rm)
            IN  /\ io # "ok" => faults < MaxFaults
                /\ faults' = IF io # "ok" THEN faults + 1 ELSE faults
                /\ catalog' = res.cat
                /\ out' = [op |-> "scan", path |-> path, tree |-> tree, err |-> res.err,
                           saved |-> Len(discoverSchemaFiles(path, tree)) # 0,
                           io |-> io, snapshot |-> snapshot]

\* matrix schema-catalog scan <path>
runSchemaScan(path, tree, io, rm) ==
    /\ now <= MaxTick
    /\ now' = now + 1
    /\ IF ~tree.exists
       THEN /\ io = "ok" /\ rm
            /\ out' = [op |-> "scan", path |-> path, tree |-> tree,
                       err |-> "path does not exist",
                       saved |-> FALSE]
            /\ UNCHANGED <<catalog, faults>>
       ELSE IF Len(discoverSchemaFiles(path, tree)) = 0
       THEN /\ io = "ok" /\ rm
            /\ out' = [op |-> "scan", path |-> path, tree |-> tree, err |-> "",
                       saved |-> FALSE]
            /\ UNCHANGED <<catalog, faults>>
       ELSE LET snapshot == BuildSnapshot(path, tree, now)
                res == saveSnapshot(catalog, snapshot, io, rm)
            IN  /\ io # "ok" => faults < MaxFaults
                /\ faults' = IF io # "ok" THEN faults + 1 ELSE faults
                /\ catalog' = res.cat
                /\ out' = [op |-> "scan", path |-> path, tree |-> tree, err |-> res.err,
                           saved |-> TRUE, io |-> io, snapshot |-> snapshot]

\* runSchemaDiff that also persists the snapshot it builds, as scan does
runSchemaDiffSaving(path, tree) ==
    LET last == loadLatestSnapshot(catalog, Base(path))
        current == BuildSnapshot(path, tree, now)
    IN  /\ UNCHANGED <<now, faults>>
        /\ IF last.err # ""
           THEN /\ out' = [op |-> "diff", path |-> path, tree |-> tree,
                           err |-> "no previous snapshot found for project"]
                /\ UNCHANGED catalog
           ELSE \E newOrder \in Perms(DOMAIN current.Tables),
                   oldOrder \in Perms(DOMAIN last.snapshot.Tables) :
                    /\ out' = [op |-> "diff", path |-> path, tree |-> tree, err |-> "",
                               diff |-> compareSnapshots(last.snapshot, current,
                                                         newOrder, oldOrder)]
                    /\ catalog' = saveSnapshot(catalog, current, "ok", TRUE).cat

\* the stages of a diff that found a stored snapshot, in the order it runs them
DiffSteps == <<"load", "discover", "parse", "checksum", "compare">>

\* runSchemaDiff that scans the target path before it loads the stored snapshot
runSchemaDiffScanFirst(path, tree) ==
    LET projectName == Base(path)
        last == loadLatestSnapshot(catalog, projectName)
        current == BuildSnapshot(path, tree, now)
    IN  /\ UNCHANGED <<now, faults, catalog>>
        /\ IF last.err # ""
           THEN out' = [op |-> "diff", path |-> path, tree |-> tree,
                        err |-> "no previous snapshot found for project",
                        project |-> projectName,
                        steps |-> <<"discover", "parse", "checksum", "load">>]
           ELSE \E newOrder \in Perms(DOMAIN current.Tables),
                   oldOrder \in Perms(DOMAIN last.snapshot.Tables) :
                    out' = [op |-> "diff", path |-> path, tree |-> tree, err |-> "",
                            project |-> projectName,
                            steps |-> <<"discover", "parse", "checksum", "load",
                                        "compare">>,
                            diff |-> compareSnapshots(last.snapshot, current,
                                                      newOrder, oldOrder)]

\* matrix schema-catalog diff <path>
runSchemaDiff(path, tree) ==
    LET projectName == Base(path)
        last == loadLatestSnapshot(catalog, projectName)
        current == BuildSnapshot(path, tree, now)
    IN  /\ UNCHANGED <<now, faults>>
        /\ IF last.err # ""
           THEN /\ out' = [op |-> "diff", path |-> path, tree |-> tree,
                           err |-> "no previous snapshot found for project",
                           project |-> projectName, steps |-> <<"load">>]
                /\ UNCHANGED catalog
           ELSE \E newOrder \in Perms(DOMAIN current.Tables),
                   oldOrder \in Perms(DOMAIN last.snapshot.Tables) :
                    /\ out' = [op |-> "diff", path |-> path, tree |-> tree, err |-> "",
                               project |-> projectName, steps |-> DiffSteps,
                               lastSnapshot |-> last.snapshot,
                               diff |-> compareSnapshots(last.snapshot, current,
                                                         newOrder, oldOrder)]
                    /\ UNCHANGED catalog

RECURSIVE Versions(_, _)
\* the versions of the table among the snapshots, in the order of the list
Versions(snapshots, tableName) ==
    IF snapshots = <<>> THEN <<>>
    ELSE (IF tableName \in DOMAIN Head(snapshots).Tables
          THEN <<[SnapshotTime |-> Head(snapshots).SnapshotTime,
                  Project |-> Head(snapshots).Project,
                  Columns |-> Head(snapshots).Tables[tableName].Columns]>>
          ELSE <<>>)
         \o Versions(Tail(snapshots), tableName)

RECURSIVE HistoryLoop(_, _, _)
\* for _, proj := range projects
HistoryLoop(cat, projects, tableName) ==
    IF projects = <<>> THEN <<>>
    ELSE (IF cat[Head(projects)].exists
          THEN Versions(loadAllSnapshots(cat, Head(projects)), tableName)
          ELSE <<>>)
         \o HistoryLoop(cat, Tail(projects), tableName)

\* os.ReadDir(getCatalogDir()) succeeds once some project directory was made
CatalogRootExists(cat) == \E p \in Projects : cat[p].exists

\* matrix schema-catalog history <table>
runSchemaHistory(tableName) ==
    /\ UNCHANGED <<now, faults, catalog>>
    /\ IF ~CatalogRootExists(catalog)
       THEN out' = [op |-> "history", table |-> tableName,
                    err |-> "failed to read catalog"]
       ELSE out' = [op |-> "history", table |-> tableName, err |-> "",
                    versions |-> HistoryLoop(catalog, ProjectsByName, tableName)]

\* what find prints of a snapshot that has the table
FoundIn(snapshot, tableName) ==
    [Project |-> snapshot.Project, Source |-> snapshot.Source,
     SnapshotTime |-> snapshot.SnapshotTime,
     Columns |-> snapshot.Tables[tableName].Columns]

RECURSIVE FoundInAll(_, _)
FoundInAll(snapshots, tableName) ==
    IF snapshots = <<>> THEN <<>>
    ELSE (IF tableName \in DOMAIN Head(snapshots).Tables
          THEN <<FoundIn(Head(snapshots), tableName)>> ELSE <<>>)
         \o FoundInAll(Tail(snapshots), tableName)

RECURSIVE FindLoopAllRecords(_, _, _)
\* FindLoop searching every record of a project, as history does
FindLoopAllRecords(cat, projects, tableName) ==
    IF projects = <<>> THEN <<>>
    ELSE (IF cat[Head(projects)].exists
          THEN FoundInAll(loadAllSnapshots(cat, Head(projects)), tableName)
          ELSE <<>>)
         \o FindLoopAllRecords(cat, Tail(projects), tableName)

RECURSIVE FindLoop(_, _, _)
\* for _, proj := range projects: a project whose latest cannot be loaded is skipped
FindLoop(cat, projects, tableName) ==
    IF projects = <<>> THEN <<>>
    ELSE LET last == loadLatestSnapshot(cat, Head(projects))
         IN  (IF cat[Head(projects)].exists /\ last.err = ""
                 /\ tableName \in DOMAIN last.snapshot.Tables
              THEN <<FoundIn(last.snapshot, tableName)>> ELSE <<>>)
             \o FindLoop(cat, Tail(projects), tableName)

\* matrix schema-catalog find <table>
runSchemaFind(tableName) ==
    /\ UNCHANGED <<now, faults, catalog>>
    /\ IF ~CatalogRootExists(catalog)
       THEN out' = [op |-> "find", table |-> tableName,
                    err |-> "failed to read catalog"]
       ELSE out' = [op |-> "find", table |-> tableName, err |-> "",
                    matches |-> FindLoop(catalog, ProjectsByName, tableName)]

\* what list prints of a project whose latest record loads
Listed(snapshot) ==
    [Project |-> snapshot.Project, Source |-> snapshot.Source,
     Tables |-> Cardinality(DOMAIN snapshot.Tables),
     SnapshotTime |-> snapshot.SnapshotTime]

RECURSIVE ListLoop(_, _)
\* for _, proj := range projects: a project whose latest cannot be loaded is skipped
ListLoop(cat, projects) ==
    IF projects = <<>> THEN <<>>
    ELSE LET last == loadLatestSnapshot(cat, Head(projects))
         IN  (IF cat[Head(projects)].exists /\ last.err = ""
              THEN <<Listed(last.snapshot)>> ELSE <<>>)
             \o ListLoop(cat, Tail(projects))

\* runSchemaList without the os.Stat test: os.ReadDir fails on an absent root
runSchemaListNoStat ==
    /\ UNCHANGED <<now, faults, catalog>>
    /\ IF ~CatalogRootExists(catalog)
       THEN out' = [op |-> "list", err |-> "failed to read catalog",
                    none |-> FALSE, projects |-> <<>>]
       ELSE out' = [op |-> "list", err |-> "", none |-> FALSE,
                    projects |-> ListLoop(catalog, ProjectsByName)]

\* matrix schema-catalog list
runSchemaList ==
    /\ UNCHANGED <<now, faults, catalog>>
    /\ IF ~CatalogRootExists(catalog)
       THEN out' = [op |-> "list", err |-> "", none |-> TRUE, projects |-> <<>>]
       ELSE out' = [op |-> "list", err |-> "", none |-> FALSE,
                    projects |-> ListLoop(catalog, ProjectsByName)]

Next ==
    \/ Tick
    \/ \E path \in Paths : \E tree \in Trees(path), c \in IoCases :
          runSchemaScan(path, tree, c[1], c[2])
    \/ \E path \in Paths : \E tree \in Trees(path) : runSchemaDiff(path, tree)
    \/ \E tableName \in TableNames : runSchemaHistory(tableName)
    \/ \E tableName \in TableNames : runSchemaFind(tableName)
    \/ runSchemaList

Spec == Init /\ [][Next]_vars

\* The same commands when no I/O of saveSnapshot ever fails.
NextReliable ==
    \/ Tick
    \/ \E path \in Paths : \E tree \in Trees(path) : runSchemaScan(path, tree, "ok", TRUE)
    \/ \E path \in Paths : \E tree \in Trees(path) : runSchemaDiff(path, tree)
    \/ \E tableName \in TableNames : runSchemaHistory(tableName)
    \/ \E tableName \in TableNames : runSchemaFind(tableName)
    \/ runSchemaList

SpecReliable == Init /\ [][NextReliable]_vars

(***************************************************************************)
(* The diff engine on its own: compareSnapshots applied, in both           *)
(* directions, to every pair of snapshots over a bounded set of tables.    *)
(***************************************************************************)
MaxCols == 2

DiffCols == {cId, cName, cNameV, cEmail}

\* a column list parseColumns returns for a body that repeats a column name:
\* name TEXT, name VARCHAR, email TEXT NOT NULL
RepeatedNameList == <<cName, cNameV, cEmail>>

ColumnLists == UNION {[1..n -> DiffCols] : n \in 0..MaxCols} \cup {RepeatedNameList}

\* the table mappings: users absent or with any column list, orders absent or present
DiffTables ==
    {NoTables}
    \cup {PutTable(NoTables, Tbl("users", cols)) : cols \in ColumnLists}
    \cup {PutTable(NoTables, Tbl("orders", <<cId>>))}
    \cup {PutTables(NoTables, <<Tbl("users", cols), Tbl("orders", <<cId>>)>>) :
             cols \in ColumnLists}

SnapshotOf(tables) ==
    LET snapshot == [Project |-> "app", SnapshotTime |-> 0, Source |-> "/w/app",
                     GitCommit |-> "", Checksum |-> "",
                     Tables |-> tables, SourceFiles |-> <<<<"schema.sql">>>>]
    IN  [snapshot EXCEPT !.Checksum = calculateChecksum(snapshot)]

InitCompare ==
    /\ now = 0
    /\ catalog = [p \in Projects |-> EmptyDir]
    /\ faults = 0
    /\ out \in {[op |-> "compare_in", old |-> SnapshotOf(a), new |-> SnapshotOf(b)] :
                    a \in DiffTables, b \in DiffTables}

\* compareSnapshots(old, new) and compareSnapshots(new, old)
ApplyCompare ==
    /\ out.op = "compare_in"
    /\ \E newOrder \in Perms(DOMAIN out.new.Tables),
          oldOrder \in Perms(DOMAIN out.old.Tables),
          revNewOrder \in Perms(DOMAIN out.old.Tables),
          revOldOrder \in Perms(DOMAIN out.new.Tables) :
            out' = [op |-> "compare", old |-> out.old, new |-> out.new,
                    fwd |-> compareSnapshots(out.old, out.new, newOrder, oldOrder),
                    rev |-> compareSnapshots(out.new, out.old, revNewOrder, revOldOrder)]
    /\ UNCHANGED <<now, catalog, faults>>

NextCompare == ApplyCompare

SpecCompare == InitCompare /\ [][NextCompare]_vars

(***************************************************************************)
(* The checksum on its own: two scans, of any two paths at any two times,  *)
(* whose files define tables in any order, in one file or one file each.   *)
(***************************************************************************)
MaxTables == 2

ChecksumTables ==
    {Tbl("users", <<cId, cName>>), Tbl("users", <<cId, cNameV>>), Tbl("orders", <<cId>>)}

TableLists == UNION {[1..n -> ChecksumTables] : n \in 0..MaxTables}

FileNames == <<"a.sql", "b.sql", "c.sql">>

\* the tables of the list defined by one file, or by one file each
TreeOfTables(list, single) ==
    IF single THEN Tree(<<SchemaFile("schema.sql", TRUE, list)>>)
    ELSE Tree([i \in DOMAIN list |-> SchemaFile(FileNames[i], TRUE, <<list[i]>>)])

ScanInput(path, t, list, single) ==
    [path |-> path, t |-> t, list |-> list, tree |-> TreeOfTables(list, single)]

InitChecksum ==
    /\ now = 0
    /\ catalog = [p \in Projects |-> EmptyDir]
    /\ faults = 0
    /\ out \in {[op |-> "checksum_in",
                 ina |-> ScanInput("/w/app", 0, la, TRUE),
                 inb |-> ScanInput(path, t, lb, single)] :
                    la \in TableLists, lb \in TableLists, path \in Paths,
                    t \in 0..MaxTick, single \in BOOLEAN}

\* the snapshots the two scans build, each with its checksum
ApplyChecksum ==
    /\ out.op = "checksum_in"
    /\ out' = [op |-> "checksum", ina |-> out.ina, inb |-> out.inb,
               a |-> BuildSnapshot(out.ina.path, out.ina.tree, out.ina.t),
               b |-> BuildSnapshot(out.inb.path, out.inb.tree, out.inb.t)]
    /\ UNCHANGED <<now, catalog, faults>>

NextChecksum == ApplyChecksum

SpecChecksum == InitChecksum /\ [][NextChecksum]_vars

(***************************************************************************)
(* The extractor of columns.  The body of a CREATE TABLE statement is the  *)
(* sequence of its words, with "," for every comma in it; the words of a   *)
(* fragment are separated by single blanks.                                *)
(***************************************************************************)
\* strings.ToUpper on the words of the model
ToUpper(w) ==
    CASE w = "primary" -> "PRIMARY" [] w = "key" -> "KEY"
      [] w = "not" -> "NOT"         [] w = "null" -> "NULL"
      [] w = "id" -> "ID"           [] w = "(id)" -> "(ID)"
      [] w = "name" -> "NAME"       [] w = "<bq>name<bq>" -> "<bq>NAME<bq>"
      [] w = "email" -> "EMAIL"     [] w = "price" -> "PRICE"
      [] w = "total" -> "TOTAL"     [] w = "key_id" -> "KEY_ID"
      [] w = "create" -> "CREATE"   [] w = "table" -> "TABLE"
      [] w = "if" -> "IF"           [] w = "exists" -> "EXISTS"
      [] OTHER -> w

\* strings.HasPrefix(w, p) on an uppercased word and a keyword
StartsWith(w, p) == w = p \/ <<w, p>> \in {<<"KEY_ID", "KEY">>}

\* strings.Trim of backticks and double quotes; <bq> spells one backtick
TrimQuotes(w) == IF w = "<bq>name<bq>" THEN "name" ELSE w

RECURSIVE Split(_)
\* strings.Split(columnsStr, ","): the fragments between the commas
Split(tokens) ==
    IF \A i \in DOMAIN tokens : tokens[i] # "," THEN <<tokens>>
    ELSE LET i == CHOOSE k \in DOMAIN tokens :
                      tokens[k] = "," /\ \A j \in 1..(k - 1) : tokens[j] # ","
         IN  <<SubSeq(tokens, 1, i - 1)>> \o Split(SubSeq(tokens, i + 1, Len(tokens)))

\* strings.HasPrefix(strings.ToUpper(line), keyword) for a keyword of one word
LineStartsWith(line, keyword) ==
    line # <<>> /\ StartsWith(ToUpper(line[1]), keyword)

\* the same for a keyword of two words, such as PRIMARY KEY
LineStartsWithTwo(line, first, second) ==
    Len(line) >= 2 /\ ToUpper(line[1]) = first /\ StartsWith(ToUpper(line[2]), second)

\* strings.Contains(lineUpper, "<first> <second>")
LineContainsTwo(line, first, second) ==
    \E i \in 1..(Len(line) - 1) :
        ToUpper(line[i]) = first /\ StartsWith(ToUpper(line[i + 1]), second)

\* strings.Contains(lineUpper, keyword) for a keyword of one word
LineContains(line, keyword) ==
    \E i \in DOMAIN line : ToUpper(line[i]) = keyword

\* the fragment is skipped as a constraint
IsConstraint(line) ==
    \/ LineStartsWithTwo(line, "PRIMARY", "KEY")
    \/ LineStartsWithTwo(line, "FOREIGN", "KEY")
    \/ LineStartsWith(line, "UNIQUE")
    \/ LineStartsWith(line, "INDEX")
    \/ LineStartsWith(line, "KEY")
    \/ LineStartsWith(line, "CONSTRAINT")

\* (?i)DEFAULT\s+([^,\s]+): the word after the first DEFAULT, "" without one
DefaultOf(line) ==
    LET at == {i \in 1..(Len(line) - 1) : ToUpper(line[i]) = "DEFAULT"}
    IN  IF at = {} THEN ""
        ELSE line[(CHOOSE i \in at : \A j \in at : i <= j) + 1]

\* the body of the loop of parseColumns with PRIMARY KEY not clearing Nullable
parseLineKeepingNullable(line) ==
    IF IsConstraint(line) \/ Len(line) < 2 THEN [kept |-> FALSE]
    ELSE [kept |-> TRUE,
          column |-> [Name |-> TrimQuotes(line[1]), Type |-> line[2],
                      Nullable |-> ~LineContainsTwo(line, "NOT", "NULL"),
                      PrimaryKey |-> LineContainsTwo(line, "PRIMARY", "KEY"),
                      Unique |-> LineContains(line, "UNIQUE"),
                      Default |-> DefaultOf(line)]]

\* the body of the loop of parseColumns without the test of len(parts): a
\* fragment of fewer than two words gives a column of what words it has
parseLineTypeless(line) ==
    IF IsConstraint(line) THEN [kept |-> FALSE]
    ELSE [kept |-> TRUE,
          column |-> [Name |-> IF Len(line) >= 1 THEN TrimQuotes(line[1]) ELSE "",
                      Type |-> IF Len(line) >= 2 THEN line[2] ELSE "",
                      Nullable |-> ~(\/ LineContainsTwo(line, "PRIMARY", "KEY")
                                     \/ LineContainsTwo(line, "NOT", "NULL")),
                      PrimaryKey |-> LineContainsTwo(line, "PRIMARY", "KEY"),
                      Unique |-> LineContains(line, "UNIQUE"),
                      Default |-> DefaultOf(line)]]

\* the body of the loop of parseColumns: the fragment is skipped or gives a column
parseLine(line) ==
    IF IsConstraint(line) \/ Len(line) < 2 THEN [kept |-> FALSE]
    ELSE [kept |-> TRUE,
          column |-> [Name |-> TrimQuotes(line[1]), Type |-> line[2],
                      Nullable |-> ~(\/ LineContainsTwo(line, "PRIMARY", "KEY")
                                     \/ LineContainsTwo(line, "NOT", "NULL")),
                      PrimaryKey |-> LineContainsTwo(line, "PRIMARY", "KEY"),
                      Unique |-> LineContains(line, "UNIQUE"),
                      Default |-> DefaultOf(line)]]

RECURSIVE ParseLines(_)
ParseLines(lines) ==
    IF lines = <<>> THEN <<>>
    ELSE (IF parseLine(Head(lines)).kept THEN <<parseLine(Head(lines)).column>> ELSE <<>>)
         \o ParseLines(Tail(lines))

\* parseColumns(columnsStr)
parseColumns(columnsStr) == ParseLines(Split(columnsStr))

MaxDefs == 2

\* what a CREATE TABLE body lists between its separating commas
ColumnDefs ==
    {<<"id", "INT", "PRIMARY", "KEY">>,
     <<"id", "INT", "primary", "key">>,
     <<"name", "TEXT">>,
     <<"name", "VARCHAR", "NOT", "NULL">>,
     <<"<bq>name<bq>", "TEXT", "DEFAULT", "0">>,
     <<"price", "DECIMAL(10", ",", "2)", "NOT", "NULL">>,
     <<"total", "DECIMAL(10", ",", "2)", "not", "null">>,
     <<"email", "TEXT", "UNIQUE">>,
     <<"key_id", "INT">>,
     <<"PRIMARY", "KEY", "(id)">>,
     <<"id">>}

RECURSIVE JoinDefs(_)
\* the definitions separated by commas
JoinDefs(defs) ==
    IF defs = <<>> THEN <<>>
    ELSE IF Len(defs) = 1 THEN defs[1]
    ELSE defs[1] \o <<",">> \o JoinDefs(Tail(defs))

Bodies == {JoinDefs(defs) : defs \in UNION {[1..n -> ColumnDefs] : n \in 0..MaxDefs}}

InitParse ==
    /\ now = 0
    /\ catalog = [p \in Projects |-> EmptyDir]
    /\ faults = 0
    /\ out \in {[op |-> "parse_in", body |-> b] : b \in Bodies}

\* parseColumns on the body, with what each fragment gave
ApplyParse ==
    /\ out.op = "parse_in"
    /\ out' = [op |-> "parse", body |-> out.body,
               lines |-> Split(out.body),
               parsed |-> [i \in DOMAIN Split(out.body) |-> parseLine(Split(out.body)[i])],
               columns |-> parseColumns(out.body)]
    /\ UNCHANGED <<now, catalog, faults>>

NextParse == ApplyParse

SpecParse == InitParse /\ [][NextParse]_vars

(***************************************************************************)
(* The extractor of tables.  The content of a .sql file is the sequence of *)
(* its words, with "(", ")", ";" and "," as words of their own; ")" and    *)
(* ";" next to each other stand for the two characters with nothing        *)
(* between them.  The pattern of parseSQLSchema is                         *)
(*   (?si)CREATE\s+TABLE(?:\s+IF\s+NOT\s+EXISTS)?\s+NAME\s*\((.*?)\);      *)
(* with NAME a run of word characters, in backticks or double quotes or    *)
(* bare.                                                                   *)
(***************************************************************************)
MaxStmts == 3

\* the words of the model that are not a run of word characters
NotWords == {"(", ")", ";", ",", "ENGINE=InnoDB", "DECIMAL(10", "2)", "(id)", "<bq>orders<bq>"}

\* the word matches <bq>?(\w+)<bq>?
IsName(w) == w \notin NotWords \/ w = "<bq>orders<bq>"

\* the capture group (\w+) of a name
CaptureName(w) == IF w = "<bq>orders<bq>" THEN "orders" ELSE w

\* content[i] is there and reads as the keyword, in any case
WordIs(content, i, keyword) == i \in DOMAIN content /\ ToUpper(content[i]) = keyword

\* the places where the name can stand for a match that starts at i: after
\* IF NOT EXISTS when the words are there, or right after TABLE
NamePlaces(content, i) ==
    (IF /\ WordIs(content, i + 2, "IF") /\ WordIs(content, i + 3, "NOT")
        /\ WordIs(content, i + 4, "EXISTS")
     THEN {i + 5} ELSE {})
    \cup {i + 2}

\* the places of a ")" right before a ";" after the "(" at place open
BodyEnds(content, open) ==
    {k \in (open + 1)..(Len(content) - 1) : content[k] = ")" /\ content[k + 1] = ";"}

\* a match can start at i with its name at place n
MatchesAt(content, i, n) ==
    /\ WordIs(content, i, "CREATE")
    /\ WordIs(content, i + 1, "TABLE")
    /\ n \in DOMAIN content
    /\ IsName(content[n])
    /\ WordIs(content, n + 1, "(")
    /\ BodyEnds(content, n + 1) # {}

\* the match that starts at i: the optional group is tried first, and the
\* lazy (.*?) stops at the first ");" after the opening parenthesis
MatchAt(content, i) ==
    LET places == {n \in NamePlaces(content, i) : MatchesAt(content, i, n)}
        n == CHOOSE m \in places : \A o \in places : o <= m
        k == CHOOSE e \in BodyEnds(content, n + 1) :
                 \A o \in BodyEnds(content, n + 1) : e <= o
    IN  [start |-> i, end |-> k + 1, name |-> CaptureName(content[n]),
         body |-> SubSeq(content, n + 2, k - 1)]

RECURSIVE FindAllStringSubmatch(_, _)
\* createTablePattern.FindAllStringSubmatch(content, -1): the leftmost match
\* from place from on, then the matches after its end
FindAllStringSubmatch(content, from) ==
    LET starts == {i \in from..Len(content) :
                      \E n \in NamePlaces(content, i) : MatchesAt(content, i, n)}
    IN  IF starts = {} THEN <<>>
        ELSE LET m == MatchAt(content, CHOOSE i \in starts : \A o \in starts : i <= o)
             IN  <<m>> \o FindAllStringSubmatch(content, m.end + 1)

\* the table parseSQLSchema makes of a match
TableOfMatch(m) == Tbl(m.name, parseColumns(m.body))

\* parseSQLSchema(content)
parseSQLSchema(content) ==
    LET matches == FindAllStringSubmatch(content, 1)
    IN  [i \in DOMAIN matches |-> TableOfMatch(matches[i])]

\* a statement of the content: its words, whether it is a CREATE TABLE
\* statement that ends in ");", and the name and the body it declares
Stmt(words, wellFormed, name, body) ==
    [words |-> words, wellFormed |-> wellFormed, name |-> name, body |-> body]

Statements ==
    {Stmt(<<"CREATE", "TABLE", "users", "(", "id", "INT", "PRIMARY", "KEY", ",",
            "name", "TEXT", ")", ";">>,
          TRUE, "users", <<"id", "INT", "PRIMARY", "KEY", ",", "name", "TEXT">>),
     Stmt(<<"create", "table", "if", "not", "exists", "<bq>orders<bq>", "(",
            "id", "INT", ")", ";">>,
          TRUE, "orders", <<"id", "INT">>),
     Stmt(<<"CREATE", "TABLE", "logs", "(", "id", "INT", ")", "ENGINE=InnoDB", ";">>,
          FALSE, "logs", <<"id", "INT">>),
     Stmt(<<"INSERT", "INTO", "users", "VALUES", "(", "1", ")", ";">>,
          FALSE, "", <<>>),
     Stmt(<<"CREATE", "INDEX", "by_name", "ON", "users", "(", "name", ")", ";">>,
          FALSE, "", <<>>)}

StatementLists == UNION {[1..n -> Statements] : n \in 0..MaxStmts}

RECURSIVE ContentOf(_)
\* the content of a file that holds the statements
ContentOf(stmts) ==
    IF stmts = <<>> THEN <<>> ELSE Head(stmts).words \o ContentOf(Tail(stmts))

InitSchema ==
    /\ now = 0
    /\ catalog = [p \in Projects |-> EmptyDir]
    /\ faults = 0
    /\ out \in {[op |-> "sql_in", stmts |-> l] : l \in StatementLists}

\* parseSQLSchema on the content, with the matches of the pattern
ApplySchema ==
    /\ out.op = "sql_in"
    /\ out' = [op |-> "sql", stmts |-> out.stmts,
               matches |-> FindAllStringSubmatch(ContentOf(out.stmts), 1),
               tables |-> parseSQLSchema(ContentOf(out.stmts))]
    /\ UNCHANGED <<now, catalog, faults>>

NextSchema == ApplySchema

SpecSchema == InitSchema /\ [][NextSchema]_vars

(***************************************************************************)
(* Discovery on its own: discoverSchemaFiles on a root that holds some of  *)
(* the files of a listing, which is in the order of the walk (each         *)
(* directory's entries by name, in byte order).                            *)
(***************************************************************************)
MaxFiles == 2

Plain(dir, name) == FileAt(dir, name, TRUE, <<>>)

Listing ==
    <<Plain(<<".git">>, "schema.sql"),
      Plain(<<"Migrate">>, "notes.txt"),
      Plain(<<>>, "SCHEMA.SQL"),
      Plain(<<>>, "Schema.rb"),
      Plain(<<"build">>, "schema.sql"),
      Plain(<<"db", "migrations">>, "notes.txt"),
      Plain(<<"db">>, "models.py"),
      Plain(<<"db">>, "notes.txt"),
      Plain(<<"dist">>, "schema.prisma"),
      Plain(<<>>, "main.go"),
      Plain(<<"node_modules", "pkg">>, "schema.sql"),
      Plain(<<>>, "notes.txt"),
      Plain(<<>>, "schema.prisma"),
      Plain(<<>>, "schema.rb"),
      Plain(<<>>, "schema.sql"),
      Plain(<<"target">>, "models.py"),
      Plain(<<"vendor", "migrations">>, "notes.txt")>>

RECURSIVE Chosen(_, _)
\* the files of the listing at the places of the set, in the listing's order
Chosen(places, from) ==
    IF from > Len(Listing) THEN <<>>
    ELSE (IF from \in places THEN <<Listing[from]>> ELSE <<>>)
         \o Chosen(places, from + 1)

DiscoverTrees ==
    {Tree(Chosen(places, 1)) :
        places \in {S \in SUBSET DOMAIN Listing : Cardinality(S) <= MaxFiles}}

DiscoverPaths == {"/w/app", "/w/build", "/w/migrations"}

InitDiscover ==
    /\ now = 0
    /\ catalog = [p \in Projects |-> EmptyDir]
    /\ faults = 0
    /\ out \in {[op |-> "discover_in", path |-> path, tree |-> tree] :
                    path \in DiscoverPaths, tree \in DiscoverTrees}

ApplyDiscover ==
    /\ out.op = "discover_in"
    /\ out' = [op |-> "discover", path |-> out.path, tree |-> out.tree,
               files |-> discoverSchemaFiles(out.path, out.tree)]
    /\ UNCHANGED <<now, catalog, faults>>

NextDiscover == ApplyDiscover

SpecDiscover == InitDiscover /\ [][NextDiscover]_vars

(***************************************************************************)
(* Two saveSnapshot calls for one project running at once.  os.WriteFile   *)
(* is open(O_WRONLY|O_CREATE|O_TRUNC), one write at offset 0 and close, so *)
(* a call takes six steps: MkdirAll, open and write of the record, Remove  *)
(* of schema-latest.json, open and write of schema-latest.json.  Here      *)
(* catalog is the project directory with schema-latest.json as a directory *)
(* entry naming an inode (0: no entry; 1, 2: made by that process; 3: the  *)
(* one found at the start), and out holds each process's position, bytes   *)
(* and open file.  A file's bytes are a sequence of blocks.                *)
(***************************************************************************)
SaveProcs == {1, 2}

Bytes(b) == [kind |-> "bytes", bytes |-> b]

\* the names of a set in byte order
SortedNames(S) ==
    CHOOSE s \in Perms(S) : \A i, j \in DOMAIN s : i < j => StrRank(s[i]) < StrRank(s[j])

RECURSIVE EncodeTables(_, _)
\* the tables of a document as json.MarshalIndent writes them: keys sorted, a
\* block for a table's name and one for each of its columns
EncodeTables(tables, names) ==
    IF names = <<>> THEN <<>>
    ELSE <<<<"table", Head(names)>>>>
         \o [i \in DOMAIN tables[Head(names)].Columns |->
                <<"column", tables[Head(names)].Columns[i]>>]
         \o EncodeTables(tables, Tail(names))

\* json.MarshalIndent(snapshot, "", "  "): the bytes of the document
MarshalIndent(snapshot) ==
    LET doc == MarshalSnapshot(snapshot)
    IN  <<<<"head", doc.Project, doc.SnapshotTime, doc.Source, doc.GitCommit,
            doc.Checksum, doc.SourceFiles>>>>
        \o EncodeTables(doc.Tables, SortedNames(DOMAIN doc.Tables))

\* write(2) of data at offset 0 of a file holding old
WriteAt0(old, data) == data \o SubSeq(old, Len(data) + 1, Len(old))

\* the project directory before the two calls: empty or left by an earlier scan
RaceDirs ==
    LET earlier == MarshalIndent(BuildSnapshot("/w/app", TreeUsers, 0))
        none == [exists |-> FALSE, recs |-> [k \in Keys |-> Absent],
                 latest |-> 0, inodes |-> [i \in 1..3 |-> <<>>]]
    IN  {none,
         [none EXCEPT !.exists = TRUE, !.recs[FormatTimestamp(0)] = Bytes(earlier),
                      !.latest = 3, !.inodes[3] = earlier]}

\* the snapshots the two scans of /w/app built
RaceSnapshots ==
    {BuildSnapshot("/w/app", tree, t) : tree \in {TreeUsers, TreeTwo}, t \in 0..MaxTick}

InitRace ==
    /\ now = 0
    /\ faults = 0
    /\ catalog \in RaceDirs
    /\ out \in {[op |-> "save2",
                 pc |-> [p \in SaveProcs |-> "mkdir"],
                 snapshot |-> [p \in SaveProcs |-> IF p = 1 THEN a ELSE b],
                 fd |-> [p \in SaveProcs |-> 0],
                 order |-> <<>>] : a \in RaceSnapshots, b \in RaceSnapshots}

\* os.MkdirAll(projectDir, 0755)
MkdirAll(p) ==
    /\ out.pc[p] = "mkdir"
    /\ catalog' = [catalog EXCEPT !.exists = TRUE]
    /\ out' = [out EXCEPT !.pc[p] = "open_record"]
    /\ UNCHANGED <<now, faults>>

\* os.WriteFile(snapshotFile, ...): the file is opened, made if absent, and cut to length 0
OpenRecord(p) ==
    /\ out.pc[p] = "open_record"
    /\ catalog' = [catalog EXCEPT
                     !.recs[FormatTimestamp(out.snapshot[p].SnapshotTime)] = Bytes(<<>>)]
    /\ out' = [out EXCEPT !.pc[p] = "write_record"]
    /\ UNCHANGED <<now, faults>>

\* os.WriteFile(snapshotFile, ...): the data is written and the file closed
WriteRecord(p) ==
    LET k == FormatTimestamp(out.snapshot[p].SnapshotTime)
    IN  /\ out.pc[p] = "write_record"
        /\ catalog' = [catalog EXCEPT !.recs[k] =
                         Bytes(WriteAt0(catalog.recs[k].bytes,
                                        MarshalIndent(out.snapshot[p])))]
        /\ out' = [out EXCEPT !.pc[p] = "remove"]
        /\ UNCHANGED <<now, faults>>

\* os.Remove(latestFile): the entry goes, an open file of it stays writable
RemoveLatest(p) ==
    /\ out.pc[p] = "remove"
    /\ catalog' = [catalog EXCEPT !.latest = 0]
    /\ out' = [out EXCEPT !.pc[p] = "open_latest"]
    /\ UNCHANGED <<now, faults>>

\* os.WriteFile(latestFile, ...): the file is opened, made if absent, and cut to length 0
OpenLatest(p) ==
    LET inode == IF catalog.latest = 0 THEN p ELSE catalog.latest
    IN  /\ out.pc[p] = "open_latest"
        /\ catalog' = [catalog EXCEPT !.latest = inode, !.inodes[inode] = <<>>]
        /\ out' = [out EXCEPT !.pc[p] = "write_latest", !.fd[p] = inode]
        /\ UNCHANGED <<now, faults>>

\* os.WriteFile(latestFile, ...): the data is written and the file closed
WriteLatest(p) ==
    /\ out.pc[p] = "write_latest"
    /\ catalog' = [catalog EXCEPT !.inodes[out.fd[p]] =
                     WriteAt0(catalog.inodes[out.fd[p]], MarshalIndent(out.snapshot[p]))]
    /\ out' = [out EXCEPT !.pc[p] = "done", !.order = Append(out.order, p)]
    /\ UNCHANGED <<now, faults>>

NextRace ==
    \E p \in SaveProcs :
        \/ MkdirAll(p)
        \/ OpenRecord(p)
        \/ WriteRecord(p)
        \/ RemoveLatest(p)
        \/ OpenLatest(p)
        \/ WriteLatest(p)

SpecRace == InitRace /\ [][NextRace]_vars

(***************************************************************************)
(* internal/ram: ScanDir on a RAM directory that holds some of the entries *)
(* of a listing, which is in the order of the walk.  An entry is a file or *)
(* a directory; readable says that os.ReadFile of the file, or os.ReadDir  *)
(* of the directory, succeeds.  The directories on the way to an entry     *)
(* exist and can be listed unless the tree holds an entry that says        *)
(* otherwise.                                                              *)
(***************************************************************************)
MaxEntries == 2

RamEntry(dir, name, isDir, readable) ==
    [dir |-> dir, name |-> name, isDir |-> isDir, readable |-> readable,
     content |-> IF isDir THEN "" ELSE <<"# ", name>>]

RamListing ==
    <<RamEntry(<<>>, "NOTES.MD", FALSE, TRUE),
      RamEntry(<<>>, "notes.md", FALSE, TRUE),
      RamEntry(<<"smith">>, ".md", FALSE, TRUE),
      RamEntry(<<"smith">>, "NOTES.MD", FALSE, TRUE),
      RamEntry(<<"smith">>, "archive.md", TRUE, TRUE),
      RamEntry(<<"smith", "archive.md">>, "old.md", FALSE, TRUE),
      RamEntry(<<"smith">>, "locked", TRUE, FALSE),
      RamEntry(<<"smith", "locked">>, "deep.md", FALSE, TRUE),
      RamEntry(<<"smith">>, "notes.md", FALSE, TRUE),
      RamEntry(<<"smith">>, "notes.txt", FALSE, TRUE),
      RamEntry(<<"smith">>, "secret.md", FALSE, FALSE),
      RamEntry(<<"smith">>, "todo.Md", FALSE, TRUE),
      RamEntry(<<"trinity">>, "debug.md", FALSE, TRUE),
      RamEntry(<<"trinity">>, "debug.mdx", FALSE, TRUE)>>

RECURSIVE RamChosen(_, _)
\* the entries of the listing at the places of the set, in the listing's order
RamChosen(places, from) ==
    IF from > Len(RamListing) THEN <<>>
    ELSE (IF from \in places THEN <<RamListing[from]>> ELSE <<>>)
         \o RamChosen(places, from + 1)

\* what os.Stat and os.ReadDir find at ramDir: nothing, something os.Stat
\* cannot reach, a regular file, or a directory with its entries
RamDirs ==
    {[kind |-> k, entries |-> <<>>] : k \in {"missing", "noaccess", "file"}}
    \cup {[kind |-> "dir", entries |-> RamChosen(places, 1)] :
            places \in {S \in SUBSET DOMAIN RamListing : Cardinality(S) <= MaxEntries}}

\* the path of an entry below ramDir
RamPath(e) == Append(e.dir, e.name)

\* filepath.WalkDir comes to the entry: no directory on its way is one whose
\* listing failed (the callback returns nil on the error and the walk goes on)
WalkDirReaches(entries, e) ==
    \A i \in DOMAIN entries :
        (entries[i].isDir /\ ~entries[i].readable)
            => ~(/\ Len(RamPath(entries[i])) <= Len(e.dir)
                 /\ SubSeq(e.dir, 1, Len(RamPath(entries[i]))) = RamPath(entries[i]))

\* the test of line 70 on the name as it is spelled, without strings.ToLower
IsMarkdownAsSpelled(name) == HasSuffix(name, ".md")

\* strings.HasSuffix(strings.ToLower(d.Name()), ".md")
IsMarkdown(name) == HasSuffix(ToLower(name), ".md")

\* the File the callback appends for an entry
RamFile(e) ==
    [Path |-> RamPath(e), Identity |-> e.dir[1],
     Name |-> TrimSuffix(e.name, Ext(e.name)), Content |-> e.content]

RECURSIVE ScanLoop(_, _)
\* the loop over the first-level entries with the walk of each directory: the
\* entries are taken in the order of the listing
ScanLoop(entries, rest) ==
    IF rest = <<>> THEN <<>>
    ELSE LET e == Head(rest)
         IN  (IF /\ e.dir # <<>>
                 /\ WalkDirReaches(entries, e)
                 /\ ~e.isDir
                 /\ IsMarkdown(e.name)
                 /\ e.readable
              THEN <<RamFile(e)>> ELSE <<>>)
             \o ScanLoop(entries, Tail(rest))

\* ScanDir: the files and the error ("" for nil)
ScanDir(ramDir) ==
    CASE ramDir.kind = "missing" ->
           [files |-> <<>>, err |-> "RAM directory does not exist"]
      [] ramDir.kind = "noaccess" ->
           [files |-> <<>>, err |-> "failed to access RAM directory"]
      [] ramDir.kind = "file" ->
           [files |-> <<>>, err |-> "failed to read RAM directory"]
      [] OTHER ->
           [files |-> ScanLoop(ramDir.entries, ramDir.entries), err |-> ""]

InitRam ==
    /\ now = 0
    /\ catalog = [p \in Projects |-> EmptyDir]
    /\ faults = 0
    /\ out \in {[op |-> "ram_in", ramDir |-> d] : d \in RamDirs}

ApplyScanDir ==
    /\ out.op = "ram_in"
    /\ out' = [op |-> "ram", ramDir |-> out.ramDir, res |-> ScanDir(out.ramDir)]
    /\ UNCHANGED <<now, catalog, faults>>

NextRam == ApplyScanDir

SpecRam == InitRam /\ [][NextRam]_vars

(***************************************************************************)
(* Properties.                                                             *)
(***************************************************************************)
\* The step just taken is a scan that called saveSnapshot.
SaveStep ==
    /\ out'.op = "scan"
    /\ out'.saved
    /\ now' = now + 1
    /\ out'.snapshot.SnapshotTime = now

\* The step just taken is a scan whose saveSnapshot returned nil, for project p.
SavedFor(p) == SaveStep /\ out'.err = "" /\ out'.snapshot.Project = p

RecordKeys(cat, p) == {k \in Keys : cat[p].recs[k] # Absent}

SortedByTime(s) ==
    \A i, j \in DOMAIN s : i < j => s[i].SnapshotTime <= s[j].SnapshotTime

AllEmpty(diff) == diff.Added = <<>> /\ diff.Modified = <<>> /\ diff.Removed = <<>>

\* C1: round trip.  After a scan has saved snapshot S without error,
\* loadLatestSnapshot(S.Project) returns a snapshot with the project, the table
\* mapping and the checksum of S.
C1_RoundTrip ==
    (out.op = "scan" /\ out.saved /\ out.err = "") =>
        LET loaded == loadLatestSnapshot(catalog, out.snapshot.Project)
        IN  /\ loaded.err = ""
            /\ loaded.snapshot.Project = out.snapshot.Project
            /\ loaded.snapshot.Tables = out.snapshot.Tables
            /\ loaded.snapshot.Checksum = out.snapshot.Checksum

\* C2: diff identity.  compareSnapshots(S, S) has empty Added, Modified and
\* Removed, for every snapshot S of extracted tables, among them tables whose
\* column list holds a column name twice.
C2_DiffIdentity ==
    (out.op = "compare" /\ out.old = out.new) => AllEmpty(out.fwd)

\* C3 as stated: the set of descriptors in compareSnapshots(A, B).Added equals
\* the set of descriptors in compareSnapshots(B, A).Removed.
C3_AddedEqualsReverseRemoved ==
    out.op = "compare" => Range(out.fwd.Added) = Range(out.rev.Removed)

TableLevel(descs) == {d \in Range(descs) : d[1] = "table: "}

\* the (table, column) pairs the column-level descriptors name
ColumnPairs(descs) == {<<d[1], d[3]>> : d \in Range(descs) \ TableLevel(descs)}

\* C3 as amended: the table-level descriptors of compareSnapshots(A, B).Added
\* are those of compareSnapshots(B, A).Removed, and the column-level entries of
\* the two name the same (table, column) pairs; an Added entry also carries the
\* column's type, which a Removed entry does not.
C3_AddedNamesEqualReverseRemoved ==
    out.op = "compare" =>
        /\ TableLevel(out.fwd.Added) = TableLevel(out.rev.Removed)
        /\ ColumnPairs(out.fwd.Added) = ColumnPairs(out.rev.Removed)

\* C3 witness: a comparison that reports an added table and an added column.
C3_Witness ==
    /\ out.op = "compare"
    /\ TableLevel(out.fwd.Added) # {}
    /\ ColumnPairs(out.fwd.Added) # {}

\* the timestamps of the records of p that hold a whole snapshot document
WrittenKeys(cat, p) == {k \in Keys : cat[p].recs[k].kind = "json"}

NewestKey(cat, p) ==
    CHOOSE k \in WrittenKeys(cat, p) : \A j \in WrittenKeys(cat, p) : j <= k

\* C4: a project with at least one timestamp-named record has a latest record,
\* and latest holds the content of the record with the greatest timestamp.
C4_LatestIsNewestRecord ==
    \A p \in Projects :
        WrittenKeys(catalog, p) # {} =>
            /\ catalog[p].latest # Absent
            /\ catalog[p].latest = catalog[p].recs[NewestKey(catalog, p)]

\* C5: immutable history.  No step changes or removes a timestamp-named record
\* that exists, and the number of records of a project grows by one with every
\* successful save for it and by nothing else.
C5_HistoryImmutable ==
    [][\A p \in Projects :
          /\ \A k \in RecordKeys(catalog, p) : catalog'[p].recs[k] = catalog[p].recs[k]
          /\ Cardinality(RecordKeys(catalog', p))
                = Cardinality(RecordKeys(catalog, p)) + (IF SavedFor(p) THEN 1 ELSE 0)
      ]_vars

\* C6: save failure atomicity.  When the write of the timestamp-named record
\* fails, saveSnapshot returns an error and latest is what it was; and whenever
\* saveSnapshot returns nil, both records hold the new snapshot.
C6_SaveFailureAtomic ==
    [][SaveStep =>
          LET p == out'.snapshot.Project
              data == Json(MarshalSnapshot(out'.snapshot))
              key == FormatTimestamp(out'.snapshot.SnapshotTime)
          IN  /\ out'.io \in {"ts_open", "ts_partial"} =>
                    /\ out'.err # ""
                    /\ catalog'[p].latest = catalog[p].latest
              /\ out'.err = "" =>
                    /\ catalog'[p].recs[key] = data
                    /\ catalog'[p].latest = data
      ]_vars

\* C6 witness: the write of the timestamp-named record has failed for a project
\* that had a latest record.
C6_Witness ==
    /\ out.op = "scan"
    /\ out.saved
    /\ out.io \in {"ts_open", "ts_partial"}
    /\ out.err # ""
    /\ catalog[out.snapshot.Project].latest.kind = "json"

\* what loadLatestSnapshot(p) returns: some error, or the snapshot
Loaded(cat, p) ==
    LET res == loadLatestSnapshot(cat, p)
    IN  IF res.err # "" THEN [failed |-> TRUE]
        ELSE [failed |-> FALSE, snapshot |-> res.snapshot]

\* C7: loadLatestSnapshot(p) returns the snapshot passed to the most recent
\* successful save for p, and an error exactly as long as no save for p has
\* succeeded: a successful save for p makes it return that snapshot, and no
\* other step changes what it returns.
C7_LoadLatestIsLastSaved ==
    [][\A p \in Projects :
          IF SavedFor(p)
          THEN Loaded(catalog', p) = [failed |-> FALSE, snapshot |-> out'.snapshot]
          ELSE Loaded(catalog', p) = Loaded(catalog, p)
      ]_vars

\* C8: loadAllSnapshots returns the decodable timestamp-named records of the
\* project, each once, sorted by snapshot time, and nothing else.
C8_LoadAllIsHistory ==
    \A p \in Projects :
        LET got == loadAllSnapshots(catalog, p)
            keys == WrittenKeys(catalog, p)
        IN  /\ Range(got) = {catalog[p].recs[k].doc : k \in keys}
            /\ Len(got) = Cardinality(keys)
            /\ SortedByTime(got)

\* C9: the history command lists the versions of a table in ascending
\* snapshot-time order across all projects.
C9_HistoryAscending ==
    (out.op = "history" /\ out.err = "") => SortedByTime(out.versions)

\* The step just taken is a diff: the only command that returns a diff result
\* or a diff error, and one that takes no tick of the model's clock.
DiffStep == out'.op = "diff" /\ now' = now

\* C10: a diff step leaves every record and every latest record of the catalog
\* as they were, whether it reports drift, no drift or an error.
C10_DiffReadOnly ==
    [][DiffStep => catalog' = catalog]_vars

\* C10 witness: diff has reported drift against a stored snapshot.
C10_Witness ==
    /\ out.op = "diff"
    /\ out.err = ""
    /\ ~AllEmpty(out.diff)
    /\ catalog[Base(out.path)].latest.kind = "json"

\* C11: checksum determinism.  Two snapshots whose table mappings are equal
\* have equal checksums, whatever the order in which the tables were put into
\* the mappings and whatever the project, time, source path and source files.
C11_ChecksumDeterminism ==
    (out.op = "checksum" /\ out.a.Tables = out.b.Tables) =>
        out.a.Checksum = out.b.Checksum

\* C11 witness: two snapshots with the same two tables, inserted in different
\* orders, of different projects, times and source files.
C11_Witness ==
    /\ out.op = "checksum"
    /\ out.a.Tables = out.b.Tables
    /\ Cardinality(DOMAIN out.a.Tables) = 2
    /\ out.ina.list # out.inb.list
    /\ out.a.Project # out.b.Project
    /\ out.a.SnapshotTime # out.b.SnapshotTime
    /\ out.a.Source # out.b.Source
    /\ out.a.SourceFiles # out.b.SourceFiles
    /\ out.a.Checksum = out.b.Checksum

\* the tables present in both snapshots of a comparison
CommonTables(old, new) == DOMAIN old.Tables \cap DOMAIN new.Tables

\* the places of the list whose column has a name the other list lacks
AbsentFrom(columns, others) ==
    {i \in DOMAIN columns : columns[i].Name \notin ColNames(others)}

\* the number of entries of the sequence that are the descriptor
Count(descs, d) == Cardinality({i \in DOMAIN descs : descs[i] = d})

\* the column-level entries of the sequence for the table
EntriesOf(descs, tableName) == {i \in DOMAIN descs : descs[i][1] = tableName}

\* the columns of the list whose name the other list has, in order
RECURSIVE KeptCols(_, _)
KeptCols(columns, others) ==
    IF columns = <<>> THEN <<>>
    ELSE (IF Head(columns).Name \in ColNames(others) THEN <<Head(columns)>> ELSE <<>>)
         \o KeptCols(Tail(columns), others)

\* new is old with columns of new names added to tables of old, at least one
OnlyColumnsAdded(old, new) ==
    /\ DOMAIN old.Tables = DOMAIN new.Tables
    /\ \A n \in DOMAIN old.Tables :
          KeptCols(new.Tables[n].Columns, old.Tables[n].Columns) = old.Tables[n].Columns
    /\ \E n \in DOMAIN old.Tables :
          AbsentFrom(new.Tables[n].Columns, old.Tables[n].Columns) # {}

\* C12: column addition detection.  For a table of both snapshots, every
\* column of the new table whose name the old table lacks produces exactly one
\* Added entry <table>.<column> (<type>), and when such additions are the only
\* difference between the snapshots, Modified and Removed are empty.
C12_ColumnAdditionDetected ==
    out.op = "compare" =>
        /\ \A n \in CommonTables(out.old, out.new) :
              LET oldCols == out.old.Tables[n].Columns
                  newCols == out.new.Tables[n].Columns
                  absent == AbsentFrom(newCols, oldCols)
                  Desc(c) == <<n, ".", c.Name, " (", c.Type, ")">>
              IN  /\ Cardinality(EntriesOf(out.fwd.Added, n)) = Cardinality(absent)
                  /\ \A i \in absent :
                        Count(out.fwd.Added, Desc(newCols[i]))
                          = Cardinality({j \in absent : Desc(newCols[j]) = Desc(newCols[i])})
        /\ OnlyColumnsAdded(out.old, out.new) =>
              out.fwd.Modified = <<>> /\ out.fwd.Removed = <<>>

\* the declarations (type, nullability) the column list gives the name
Decls(columns, name) ==
    {<<columns[i].Type, columns[i].Nullable>> :
        i \in {j \in DOMAIN columns : columns[j].Name = name}}

\* the entries of the sequence for the column of the table
EntriesOfColumn(descs, tableName, name) ==
    {i \in EntriesOf(descs, tableName) : descs[i][3] = name}

\* C13: column modification detection.  For a table of both snapshots and a
\* column name of both versions of it, Modified holds an entry
\* <table>.<column> (<oldType> -> <newType>) if and only if the declared type
\* or the nullability differs, and when they do not differ the column has no
\* entry in Added, Modified or Removed, whatever its other attributes.
C13_ColumnModificationDetected ==
    out.op = "compare" =>
        \A n \in CommonTables(out.old, out.new) :
            LET oldCols == out.old.Tables[n].Columns
                newCols == out.new.Tables[n].Columns
            IN  \A c \in ColNames(oldCols) \cap ColNames(newCols) :
                    LET differs == Decls(oldCols, c) # Decls(newCols, c)
                        entries == EntriesOfColumn(out.fwd.Modified, n, c)
                    IN  /\ differs <=> entries # {}
                        /\ \A i \in entries :
                              \E o \in Decls(oldCols, c), w \in Decls(newCols, c) :
                                  out.fwd.Modified[i]
                                    = <<n, ".", c, " (", o[1], " -> ", w[1], ")">>
                        /\ ~differs =>
                              /\ EntriesOfColumn(out.fwd.Added, n, c) = {}
                              /\ EntriesOfColumn(out.fwd.Removed, n, c) = {}

\* the table has no column-level entry in any of the three sequences
NoColumnEntries(diff, tableName) ==
    /\ EntriesOf(diff.Added, tableName) = {}
    /\ EntriesOf(diff.Modified, tableName) = {}
    /\ EntriesOf(diff.Removed, tableName) = {}

\* C14: table-level changes.  A table of new that old lacks produces exactly
\* one Added entry table: <name>, a table of old that new lacks exactly one
\* Removed entry table: <name>, and neither produces a column-level entry.
C14_TableLevelChanges ==
    out.op = "compare" =>
        /\ \A n \in DOMAIN out.new.Tables \ DOMAIN out.old.Tables :
              /\ Count(out.fwd.Added, <<"table: ", n>>) = 1
              /\ NoColumnEntries(out.fwd, n)
        /\ \A n \in DOMAIN out.old.Tables \ DOMAIN out.new.Tables :
              /\ Count(out.fwd.Removed, <<"table: ", n>>) = 1
              /\ NoColumnEntries(out.fwd, n)

\* C14 witness: a comparison in which new has a table with columns that old
\* lacks and old has a table with columns that new lacks.
C14_Witness ==
    /\ out.op = "compare"
    /\ \E n \in DOMAIN out.new.Tables \ DOMAIN out.old.Tables :
          /\ out.new.Tables[n].Columns # <<>>
          /\ Count(out.fwd.Added, <<"table: ", n>>) = 1
    /\ \E n \in DOMAIN out.old.Tables \ DOMAIN out.new.Tables :
          /\ out.old.Tables[n].Columns # <<>>
          /\ Count(out.fwd.Removed, <<"table: ", n>>) = 1

RECURSIVE DescLeq(_, _)
\* a <= b in the lexicographic order of the strings the descriptors stand for
DescLeq(a, b) ==
    IF a = <<>> THEN TRUE
    ELSE IF b = <<>> THEN FALSE
    ELSE IF Head(a) = Head(b) THEN DescLeq(Tail(a), Tail(b))
    ELSE StrRank(Head(a)) < StrRank(Head(b))

SortedDescs(descs) == \A i, j \in DOMAIN descs : i < j => DescLeq(descs[i], descs[j])

\* C15: deterministic diff output.  The result of compareSnapshots for a pair
\* of snapshots is the same whatever order the maps are iterated in, and its
\* Added, Modified and Removed sequences are each in sorted order.
C15_DiffDeterministicSorted ==
    out.op = "compare" =>
        /\ \A newOrder \in Perms(DOMAIN out.new.Tables),
              oldOrder \in Perms(DOMAIN out.old.Tables) :
                out.fwd = compareSnapshots(out.old, out.new, newOrder, oldOrder)
        /\ SortedDescs(out.fwd.Added)
        /\ SortedDescs(out.fwd.Modified)
        /\ SortedDescs(out.fwd.Removed)

\* C16: column invariant on extraction.  Every column parseColumns produces
\* comes from a fragment, has nullable = false exactly when the uppercased
\* fragment contains NOT NULL or PRIMARY KEY and primary-key = true exactly
\* when it contains PRIMARY KEY; so no column is a nullable primary key.
C16_ColumnInvariant ==
    out.op = "parse" =>
        /\ \A k \in DOMAIN out.columns :
              \E i \in DOMAIN out.lines :
                  out.parsed[i].kept /\ out.parsed[i].column = out.columns[k]
        /\ \A i \in DOMAIN out.lines :
              out.parsed[i].kept =>
                  LET c == out.parsed[i].column
                      hasPK == LineContainsTwo(out.lines[i], "PRIMARY", "KEY")
                      hasNotNull == LineContainsTwo(out.lines[i], "NOT", "NULL")
                  IN  /\ c.Nullable = FALSE <=> (hasNotNull \/ hasPK)
                      /\ c.PrimaryKey = TRUE <=> hasPK
        /\ \A k \in DOMAIN out.columns :
              ~(out.columns[k].PrimaryKey /\ out.columns[k].Nullable)

\* C16 witness: a body has given a primary-key column declared in lower case
\* without NOT NULL, and a column that is NOT NULL and no primary key.
C16_Witness ==
    /\ out.op = "parse"
    /\ \E i \in DOMAIN out.lines :
          /\ out.parsed[i].kept
          /\ LineContains(out.lines[i], "PRIMARY")
          /\ "PRIMARY" \notin Range(out.lines[i])
          /\ ~LineContainsTwo(out.lines[i], "NOT", "NULL")
          /\ out.parsed[i].column \in Range(out.columns)
          /\ out.parsed[i].column.PrimaryKey /\ ~out.parsed[i].column.Nullable
    /\ \E k \in DOMAIN out.columns :
          ~out.columns[k].PrimaryKey /\ ~out.columns[k].Nullable

\* C17: table invariant.  The columns parseColumns returns for a CREATE TABLE
\* body have names that are unique within the table, also when the body
\* repeats a column name or has a comma inside a parenthesised type.
C17_ColumnNamesUnique ==
    out.op = "parse" =>
        \A i, j \in DOMAIN out.columns :
            out.columns[i].Name = out.columns[j].Name => i = j

IgnoredDirs == {"node_modules", "vendor", ".git", "target", "build", "dist"}

\* C18: discovery exclusion.  No path discoverSchemaFiles returns has a
\* directory named node_modules, vendor, .git, target, build or dist among
\* its ancestors below the root.
C18_DiscoveryExclusion ==
    out.op = "discover" =>
        \A k \in DOMAIN out.files :
            \A j \in 1..(Len(out.files[k]) - 1) : out.files[k][j] \notin IgnoredDirs

\* C18 witness: discovery of a root that holds a schema.sql below
\* node_modules has returned another file and not that one.
C18_Witness ==
    /\ out.op = "discover"
    /\ \E i \in DOMAIN out.tree.files :
          /\ out.tree.files[i].dir = <<"node_modules", "pkg">>
          /\ out.tree.files[i].name = "schema.sql"
    /\ out.files = <<<<"schema.sql">>>>

\* the file is the root's or below directories none of which is ignored, the
\* root being no ignored directory either
NotPruned(path, file) ==
    /\ Base(path) \notin IgnoredDirs
    /\ \A j \in DOMAIN file.dir : file.dir[j] \notin IgnoredDirs

ParentIsMigrations(path, file) ==
    ToLower(IF file.dir = <<>> THEN Base(path) ELSE file.dir[Len(file.dir)])
        \in {"migrations", "migrate"}

Returned(file) == \E k \in DOMAIN out.files : out.files[k] = file.dir \o <<file.name>>

\* C19 as stated: a readable file that is not under a pruned directory is
\* returned if and only if its extension is .sql or .prisma, or its base name
\* is exactly schema.rb or models.py, or the name of its parent directory,
\* compared case-insensitively, is migrations or migrate.
C19_DiscoveryInclusion ==
    out.op = "discover" =>
        \A i \in DOMAIN out.tree.files :
            LET file == out.tree.files[i]
            IN  (file.readable /\ NotPruned(out.path, file)) =>
                    (Returned(file) <=>
                        \/ Ext(file.name) \in {".sql", ".prisma"}
                        \/ file.name \in {"schema.rb", "models.py"}
                        \/ ParentIsMigrations(out.path, file))

\* C19 as amended: the extension and the base name are compared
\* case-insensitively too.
C19_DiscoveryInclusionAnyCase ==
    out.op = "discover" =>
        \A i \in DOMAIN out.tree.files :
            LET file == out.tree.files[i]
            IN  (file.readable /\ NotPruned(out.path, file)) =>
                    (Returned(file) <=>
                        \/ Ext(ToLower(file.name)) \in {".sql", ".prisma"}
                        \/ ToLower(file.name) \in {"schema.rb", "models.py"}
                        \/ ParentIsMigrations(out.path, file))

\* C19 witness: of a root with SCHEMA.SQL and notes.txt, discovery has returned
\* the first and not the second.
C19_Witness ==
    /\ out.op = "discover"
    /\ out.path = "/w/app"
    /\ \E i, j \in DOMAIN out.tree.files :
          /\ out.tree.files[i] = Plain(<<>>, "SCHEMA.SQL")
          /\ out.tree.files[j] = Plain(<<>>, "notes.txt")
    /\ out.files = <<<<"SCHEMA.SQL">>>>

\* the latest record of the project holds a snapshot with the table
LatestHas(cat, p, tableName) ==
    /\ cat[p].latest.kind = "json"
    /\ tableName \in DOMAIN cat[p].latest.doc.Tables

\* C20: find on a catalog that has projects returns no error; it reports a
\* project exactly when the project's latest snapshot has the table, so it
\* reports nothing when no latest snapshot has it, also when an older
\* timestamp-named record of a project does.
C20_FindLatestOnly ==
    (out.op = "find" /\ CatalogRootExists(catalog)) =>
        /\ out.err = ""
        /\ \A p \in Projects :
              LatestHas(catalog, p, out.table)
                <=> \E k \in DOMAIN out.matches : out.matches[k].Project = p
        /\ (\A p \in Projects : ~LatestHas(catalog, p, out.table)) => out.matches = <<>>

\* C20 witness: find has reported nothing, without an error, for a table that
\* an older record of a project has and the project's latest snapshot lacks.
C20_Witness ==
    /\ out.op = "find"
    /\ out.err = ""
    /\ out.matches = <<>>
    /\ \E p \in Projects :
          /\ catalog[p].latest.kind = "json"
          /\ out.table \notin DOMAIN catalog[p].latest.doc.Tables
          /\ \E k \in WrittenKeys(catalog, p) :
                out.table \in DOMAIN catalog[p].recs[k].doc.Tables

\* C21: a diff for a project whose latest record cannot be loaded returns the
\* error 'no previous snapshot found for project' naming that project, has
\* loaded nothing but the stored record (no discovery, no parsing of the target
\* path ran), and carries no diff result: neither a drift list nor 'no drift'.
C21_DiffWithoutSnapshot ==
    (out.op = "diff" /\ loadLatestSnapshot(catalog, Base(out.path)).err # "")
        => /\ out.err = "no previous snapshot found for project"
           /\ out.project = Base(out.path)
           /\ out.steps = <<"load">>
           /\ "diff" \notin DOMAIN out

\* C21 witness: diff has failed for a project whose directory exists but whose
\* latest record is gone (a save removed it and could not write it again).
C21_Witness ==
    /\ out.op = "diff"
    /\ out.err # ""
    /\ catalog[Base(out.path)].exists
    /\ catalog[Base(out.path)].latest = Absent

\* a project directory exists whose latest record is missing or undecodable
SomeLatestUnloadable(cat) ==
    \E p \in Projects : cat[p].exists /\ loadLatestSnapshot(cat, p).err # ""

\* C22: with the catalog root absent, list returns no error and reports that
\* no project is cataloged, while find and history return the read-failure
\* error; with the root present none of the three returns an error, whatever
\* records of its projects are missing or undecodable.
C22_CatalogReadErrors ==
    /\ (out.op = "list" /\ ~CatalogRootExists(catalog))
          => out.err = "" /\ out.none /\ out.projects = <<>>
    /\ (out.op \in {"find", "history"} /\ ~CatalogRootExists(catalog))
          => out.err = "failed to read catalog"
    /\ (out.op \in {"list", "find", "history"} /\ CatalogRootExists(catalog))
          => out.err = ""

\* C22 witness: list has returned without error, and without the project,
\* over a catalog where a project's latest record cannot be loaded.
C22_Witness ==
    /\ out.op = "list"
    /\ out.err = ""
    /\ SomeLatestUnloadable(catalog)
    /\ \E p \in Projects :
          /\ catalog[p].exists
          /\ loadLatestSnapshot(catalog, p).err # ""
          /\ \A i \in DOMAIN out.projects : out.projects[i].Project # p

\* C22 witness for the absent root: list has reported that nothing is cataloged.
C22_WitnessAbsentRoot ==
    out.op = "list" /\ out.none /\ ~CatalogRootExists(catalog)

\* both calls have returned
BothSaved == out.op = "save2" /\ \A p \in SaveProcs : out.pc[p] = "done"

\* C23: when two saveSnapshot calls for one project have both finished,
\* schema-latest.json exists and holds the complete bytes of the snapshot whose
\* write of schema-latest.json happened last: never no file, never a mixture.
C23_ConcurrentSavesLatest ==
    BothSaved =>
        /\ catalog.latest # 0
        /\ catalog.inodes[catalog.latest]
             = MarshalIndent(out.snapshot[out.order[Len(out.order)]])

\* the file names whose lower-case spelling ends in .md
MarkdownNames ==
    {".md", "NOTES.MD", "archive.md", "debug.md", "deep.md", "notes.md", "old.md",
     "secret.md", "todo.Md"}

\* the file name without its extension, spelled out
Stem(name) ==
    CASE name = ".md" -> ""        [] name = "NOTES.MD" -> "NOTES"
      [] name = "debug.md" -> "debug" [] name = "deep.md" -> "deep"
      [] name = "notes.md" -> "notes" [] name = "old.md" -> "old"
      [] name = "todo.Md" -> "todo"   [] OTHER -> "?"

\* a file the scan can read: it and every directory on the way to it
ReadableMarkdown(entries, e) ==
    /\ ~e.isDir
    /\ e.readable
    /\ e.name \in MarkdownNames
    /\ \A i \in DOMAIN entries :
          (entries[i].isDir /\ RamPath(entries[i]) = SubSeq(e.dir, 1, Len(e.dir)))
              => entries[i].readable

\* the number of the files returned for an entry
ReturnedFor(files, e) == Cardinality({i \in DOMAIN files : files[i].Path = RamPath(e)})

LastDefinition(list, n) ==
    CHOOSE i \in DOMAIN list :
        /\ list[i].Name = n
        /\ \A j \in DOMAIN list : list[j].Name = n => j <= i

\* C25: merge policy.  The table mapping of a snapshot has exactly one entry
\* for every table name the discovered files define, under the key that is
\* the table's Name, and the entry is the definition parsed last in discovery
\* order: of a later file over an earlier one, of a later statement over an
\* earlier one in the same file.
C25_LastDefinitionWins ==
    out.op = "checksum" =>
        \A scan \in {<<out.ina.list, out.a>>, <<out.inb.list, out.b>>} :
            LET list == scan[1]
                tables == scan[2].Tables
            IN  /\ DOMAIN tables = {list[i].Name : i \in DOMAIN list}
                /\ \A n \in DOMAIN tables :
                      /\ tables[n].Name = n
                      /\ tables[n] = list[LastDefinition(list, n)]

\* C25 witness: two files define users with different columns, and the
\* snapshot holds the definition of the second.
C25_Witness ==
    /\ out.op = "checksum"
    /\ Len(out.inb.list) = 2
    /\ Len(out.inb.tree.files) = 2
    /\ out.inb.list[1].Name = "users"
    /\ out.inb.list[2].Name = "users"
    /\ out.inb.list[1] # out.inb.list[2]
    /\ out.b.Tables["users"] = out.inb.list[2]

\* the place in the content where the statement at place i of the list starts
StartOf(stmts, i) == Len(ContentOf(SubSeq(stmts, 1, i - 1))) + 1

\* C26: the extractor of tables makes one table, with the declared name and
\* the columns of the declared body, for every statement of the form
\* CREATE TABLE [IF NOT EXISTS] name ( body ); in the content, also when an
\* earlier statement does not end in ");": no such statement is taken into
\* the body of a statement before it.
C26_EveryCreateTableExtracted ==
    out.op = "sql" =>
        \A i \in DOMAIN out.stmts :
            out.stmts[i].wellFormed =>
                LET at == {j \in DOMAIN out.matches :
                              out.matches[j].start = StartOf(out.stmts, i)}
                IN  /\ Cardinality(at) = 1
                    /\ \A j \in at :
                          out.tables[j] = Tbl(out.stmts[i].name,
                                              parseColumns(out.stmts[i].body))

\* the fragment, trimmed and in upper case, begins with PRIMARY KEY, FOREIGN
\* KEY, UNIQUE, INDEX, KEY or CONSTRAINT
BeginsWithConstraintKeyword(line) ==
    /\ line # <<>>
    /\ \/ line[1] \in {"UNIQUE", "INDEX", "CONSTRAINT", "KEY", "key", "key_id"}
       \/ /\ Len(line) >= 2
          /\ line[1] \in {"PRIMARY", "primary", "FOREIGN"}
          /\ line[2] \in {"KEY", "key"}

\* the first token without its backticks and double quotes
BareName(w) == IF w = "<bq>name<bq>" THEN "name" ELSE w

\* the columns are those of the fragments that gave one, in fragment order
InFragmentOrder(parsed, columns) ==
    LET kept == {i \in DOMAIN parsed : parsed[i].kept}
    IN  /\ Len(columns) = Cardinality(kept)
        /\ \A i \in kept : columns[Cardinality({j \in kept : j <= i})] = parsed[i].column

\* a fragment that is no constraint gave exactly one column, of its first two tokens
GaveColumn(line, result) ==
    /\ result.kept
    /\ Len(line) >= 2
    /\ result.column.Name = BareName(line[1])
    /\ result.column.Type = line[2]

\* C27 as stated: every fragment between commas is discarded exactly when it
\* begins with a constraint keyword, and otherwise gives exactly one column,
\* named by its first token and typed by its second; the columns are in
\* fragment order.
C27_FragmentsConstraintOrColumn ==
    out.op = "parse" =>
        /\ \A i \in DOMAIN out.lines :
              IF BeginsWithConstraintKeyword(out.lines[i])
              THEN ~out.parsed[i].kept
              ELSE GaveColumn(out.lines[i], out.parsed[i])
        /\ InFragmentOrder(out.parsed, out.columns)

\* C27 amended: a fragment is discarded exactly when it begins with a
\* constraint keyword or has fewer than two tokens, and otherwise gives exactly
\* one column, named by its first token and typed by its second; the columns
\* are in fragment order.
C27_FragmentsSkippedOrColumn ==
    out.op = "parse" =>
        /\ \A i \in DOMAIN out.lines :
              IF BeginsWithConstraintKeyword(out.lines[i]) \/ Len(out.lines[i]) < 2
              THEN ~out.parsed[i].kept
              ELSE GaveColumn(out.lines[i], out.parsed[i])
        /\ InFragmentOrder(out.parsed, out.columns)

\* C27 witness: of two fragments the one of a single token was discarded and
\* the other, which is no constraint, gave the only column.
C27_Witness ==
    /\ out.op = "parse"
    /\ Len(out.lines) = 2
    /\ Len(out.lines[1]) = 1
    /\ ~BeginsWithConstraintKeyword(out.lines[1])
    /\ ~out.parsed[1].kept
    /\ out.parsed[2].kept
    /\ out.columns = <<out.parsed[2].column>>

\* the step just taken is a diff of the path and the tree that the scan
\* before it, which saved its snapshot without error, had scanned
DiffAfterScan ==
    /\ out.op = "scan" /\ out.saved /\ out.err = ""
    /\ DiffStep
    /\ out'.path = out.path
    /\ out'.tree = out.tree

\* C28: a diff that follows a successful, saving scan of the same path, with
\* the schema below the path unchanged and no save in between, returns no
\* error and reports no drift.
C28_DiffAfterScanNoDrift ==
    [][DiffAfterScan => (out'.err = "" /\ AllEmpty(out'.diff))]_vars

\* the step just taken is a scan of an existing path that discovered no schema file
NoFilesScanStep ==
    /\ out'.op = "scan"
    /\ now' = now + 1
    /\ out'.tree.exists
    /\ discoverSchemaFiles(out'.path, out'.tree) = <<>>

\* the step just taken is a diff, not in error, of the path whose scan, the
\* command before it, had discovered no schema file
DiffAfterNoFilesScan ==
    /\ out.op = "scan"
    /\ out.tree.exists
    /\ discoverSchemaFiles(out.path, out.tree) = <<>>
    /\ DiffStep
    /\ out'.path = out.path
    /\ out'.err = ""

\* C29: a scan that discovers no schema file returns no error and leaves
\* every file of the catalog as it was; the diff that follows it compares
\* against a snapshot taken before that scan (the scan ran at time now - 1).
C29_EmptyScanKeepsCatalog ==
    [][/\ NoFilesScanStep => (out'.err = "" /\ catalog' = catalog)
       /\ DiffAfterNoFilesScan => out'.lastSnapshot.SnapshotTime < now - 1]_vars

\* C29 witness: a diff has compared a path without schema files against the
\* snapshot an earlier scan of the path had saved.
C29_Witness ==
    /\ out.op = "diff"
    /\ out.err = ""
    /\ out.tree = TreeEmpty
    /\ out.lastSnapshot.SnapshotTime < now - 1
    /\ out.lastSnapshot.Tables # NoTables

\* no table of the snapshot declares a column name twice
UniqueColumnNames(snapshot) ==
    \A n \in DOMAIN snapshot.Tables :
        \A i, j \in DOMAIN snapshot.Tables[n].Columns :
            snapshot.Tables[n].Columns[i].Name = snapshot.Tables[n].Columns[j].Name
                => i = j

\* the number of column-level entries of the diff for a column of a table
ColumnEntries(diff, tableName, name) ==
    Cardinality(EntriesOfColumn(diff.Added, tableName, name))
    + Cardinality(EntriesOfColumn(diff.Modified, tableName, name))
    + Cardinality(EntriesOfColumn(diff.Removed, tableName, name))

\* the number of table-level entries of the diff for a table
TableEntries(diff, tableName) ==
    Count(diff.Added, TableDesc(tableName))
    + Count(diff.Modified, TableDesc(tableName))
    + Count(diff.Removed, TableDesc(tableName))

\* the entries of a diff are disjoint
DisjointEntries(diff, old, new) ==
    \A n \in DOMAIN old.Tables \cup DOMAIN new.Tables :
        /\ TableEntries(diff, n) <= 1
        /\ TableEntries(diff, n) = 1 => NoColumnEntries(diff, n)
        /\ \A c \in {"id", "name", "email"} : ColumnEntries(diff, n, c) <= 1

\* C30: for two snapshots whose tables have unique column names, every
\* (table, column) pair has at most one entry in Added, Modified and Removed
\* taken together, every table name at most one table-level entry, and a
\* table with a table-level entry has no column-level entry.
C30_DiffEntriesDisjoint ==
    (out.op = "compare" /\ UniqueColumnNames(out.old) /\ UniqueColumnNames(out.new)) =>
        /\ DisjointEntries(out.fwd, out.old, out.new)
        /\ DisjointEntries(out.rev, out.new, out.old)

\* C30 witness: between snapshots with unique column names one table was
\* added and another had a column modified, a column added and none removed.
C30_Witness ==
    /\ out.op = "compare"
    /\ UniqueColumnNames(out.old) /\ UniqueColumnNames(out.new)
    /\ Count(out.fwd.Added, TableDesc("orders")) = 1
    /\ ColumnEntries(out.fwd, "users", "name") = 1
    /\ Cardinality(EntriesOfColumn(out.fwd.Modified, "users", "name")) = 1
    /\ Cardinality(EntriesOfColumn(out.fwd.Added, "users", "email")) = 1

====
